---- MODULE Spec2Model ----
(***************************************************************************)
(* Model of playa-ai, one specification per component:                     *)
(*   Spec, FramerSpec  the microphone capture session (io/microphone.ts,   *)
(*                     class MicrophoneObservable): one arecord process,   *)
(*                     the forwarding of its stdout chunks, the 20 ms      *)
(*                     framer, the rxjs end-of-speech pipeline and the     *)
(*                     idempotent termination endCapture                   *)
(*   ListenSpec        listen() on top of a capture session                *)
(*   CaptureSpec       several capture sessions and their processes        *)
(*   PcmSpec           the mono to stereo conversion, byte by byte         *)
(*   WriterSpec        the playback writer (SpeakerStream,                 *)
(*                     ALSAAudioStream) as a node Writable over aplay      *)
(*   SpeakSpec         speak() driving the playback writer                 *)
(*   HingeSpec         hingeSwitch$: gpiomon lines, debounce, distinct     *)
(*   FlowSpec          runMinimalFlow and the workflow flag                *)
(*   CleanupSpec       cleanupLangchain and the operations it tracks       *)
(*                                                                         *)
(* Time is in milliseconds.  A timer is a deadline; it fires when now has  *)
(* reached the deadline and time does not pass an armed deadline, but any  *)
(* other event may still be handled at that instant before the timer.      *)
(* Bytes of the capture stream are named by their offset in the stdout     *)
(* stream; a Buffer is the sequence of pieces [lo, hi) of offsets it       *)
(* holds.  PCM buffers of the playback side are sequences of bytes.        *)
(***************************************************************************)
EXTENDS Integers, Sequences, FiniteSets, TLC

\* ---------------------------------------------------------------- bounds
TickMs == 200
MaxTime == 2400
MaxChunks == 2

\* ------------------------------------------------------ program constants
VAD_FRAME_BYTES == 640

DEFAULT_CONFIG == [maxInitialSilenceMs |-> 2000, maxTrailingSilenceMs |-> 800]

\* the options a caller passes to the constructor (Partial<MicrophoneConfig>)
OptionSets ==
    { [maxInitialSilenceMs |-> DEFAULT_CONFIG.maxInitialSilenceMs,
       maxTrailingSilenceMs |-> DEFAULT_CONFIG.maxTrailingSilenceMs],
      [maxInitialSilenceMs |-> 1000,
       maxTrailingSilenceMs |-> DEFAULT_CONFIG.maxTrailingSilenceMs] }

\* sizes of the chunks arecord's stdout delivers (arbitrary, not frame aligned)
ChunkSizes == {320, 1280}

\* chunk sizes and number of chunks of the framer specification
FramerChunkSizes == {1, 320, 639, 640, 641, 1280, 1921}
MaxPushes == 3

\* the chunk sizes tried when listen() is the subscriber
ListenChunkSizes == {640}

\* Number(process.env.LISTEN_IGNORE_MS ?? 250)
IgnoreMs == 250

\* the bytes and lengths of the chunks handed to the playback writer
PcmBytes == {0, 1, 128, 255}
MaxMonoLen == 4

\* the bytes and lengths of the stereo buffers a chunk is taken from
StereoBytes == {0, 255}
MaxStereoFrames == 2

\* no conversion has been made
Unwritten == [thrown |-> FALSE, bytes |-> <<"unwritten">>]

\* the lengths of the chunks written to the playback writer, and how many
\* write() and end() calls are made
WriteLengths == {3, 4096, 16384}
MaxWrites == 3
MaxEnds == 2

\* the default highWaterMark of a Writable, in bytes
HighWaterMark == 16384

\* the clock of the hinge switch: its step, its end, and how many lines
\* gpiomon prints
HingeTickMs == 25
MaxHingeTime == 150
MaxLines == 4

\* how many abort controllers the agents create, how many operations they
\* register
MaxControllers == 2
MaxOperations == 2

\* how many MicrophoneObservable instances are constructed
MaxSessions == 4

\* how many 'error' events the recognizer stream may emit
MaxStreamErrors == 1

NoTimer == -1
Never == -1

VARIABLES
    now,            \* wall clock, ms since construction
    config,         \* this.config
    isCompleted,    \* this.isCompleted
    audioBuffer,    \* this.audioBuffer, as pieces [lo, hi) of the stream
    framesSubject,  \* this.framesSubject: its observers in subscription order, isStopped
    endSub,         \* the subscription to buildEndObservable(): closed, the two timers
    subscriber,     \* the rxjs Subscriber handed to the subscribe function
    arecordProcess, \* the child process: attached listeners, events emitted, kill() calls
    log,            \* calls the session made, in order
    forwarded,      \* chunk ids passed to subscriber.next, in order
    received,       \* number of stdout 'data' events handled
    vadCalls,       \* number of vad.process calls
    speechFrames,   \* number of frames vad.process classified as speech
    lastSpeechAt,   \* time of the latest frame classified as speech
    debounceRestarted, \* a pending trailing-silence deadline was moved
    decision,       \* which branch of end$ emitted
    decidedAt,      \* when it emitted
    decisionCount,  \* how often end$ emitted
    cause,          \* the trigger whose endCapture call ran the cleanup body
    triggers,       \* the termination triggers that have occurred
    raised,         \* an exception escaped a handler
    frames,         \* the frames emitVadFrames handed to onFrame, in order
    classified,     \* the frames passed to vad.process, in call order
    pushedBytes,    \* number of bytes pushed to emitVadFrames
    listening,      \* listen() is the subscriber of the session
    stream,         \* the recognizer stream of listen(): writes made, end() calls
    streamEvents,   \* the 'error' and 'end' events the stream has emitted
    isResolved,     \* the isResolved flag of listen()
    settled,        \* the resolve and reject calls on the promise, in order
    taking,         \* skipUntil(timer(ignoreMs)) lets chunks through
    ignoreTimer,    \* deadline of timer(ignoreMs)
    microphones,    \* the MicrophoneObservable instances constructed, in order
    processes,      \* the arecord processes spawned, in order
    writer,         \* the class of the playback writer
    monoBuffer,     \* the chunk handed to _write, a sequence of bytes
    allocated,      \* the byte found in memory the writer allocates
    stereoBuffer,   \* what the conversion of monoBuffer gave
    original,       \* the stereo buffer monoBuffer was taken from, if any
    speaking,       \* speak() is the client of the playback writer
    audioStream,    \* the playback writer: its fields and its Writable state
    aplayProcess,   \* the aplay process and its stdin
    ttsStream,      \* the synthesizer stream of speak()
    settleCalls,    \* the resolve and reject calls of speak(), in order
    writeCalls,     \* the write() calls on the playback writer, in order
    emitted,        \* the events the playback writer has emitted, in order
    escaped,        \* an exception reached the event loop
    hingeNow,       \* the clock of the hinge switch, in ms
    hinge,          \* the pipeline of hingeSwitch$: its operators' state
    lastLine,       \* the last edge line gpiomon printed, and when
    lineCount,      \* how many lines gpiomon has printed
    hingeOut,       \* what hingeSwitch$ has emitted, in order
    isWorkflowActive, \* the flag of workflow/state.ts
    hingeActive,    \* the last value the hinge switch delivered
    flow,           \* the first runMinimalFlow() call
    laterFlows,     \* later runMinimalFlow() calls are running
    cleanup         \* utils/cleanup.ts: its module state and the cleanupLangchain() call

vars == <<now, config, isCompleted, audioBuffer, framesSubject, endSub,
          subscriber, arecordProcess, log, forwarded, received, vadCalls,
          speechFrames, lastSpeechAt, decision, decidedAt,
          decisionCount, cause, triggers, raised, debounceRestarted,
          frames, classified, pushedBytes,
          listening, stream, streamEvents, isResolved, settled, taking,
          ignoreTimer, microphones, processes,
          writer, monoBuffer, allocated, stereoBuffer, original,
          speaking, audioStream, aplayProcess, ttsStream, settleCalls,
          writeCalls, emitted, escaped,
          hingeNow, hinge, lastLine, lineCount, hingeOut,
          isWorkflowActive, hingeActive, flow, laterFlows, cleanup>>

playbackVars == <<speaking, audioStream, aplayProcess, ttsStream, settleCalls,
                  writeCalls, emitted, escaped>>

\* the variables of the components around the capture session
hingeVars == <<hingeNow, hinge, lastLine, lineCount, hingeOut>>

flowVars == <<isWorkflowActive, hingeActive, flow, laterFlows, cleanup>>

laterVars == <<playbackVars, hingeVars, flowVars>>

pcmVars == <<writer, monoBuffer, allocated, stereoBuffer, original>>

captureVars == <<microphones, processes>>

\* the variables of the components beyond one session and its listen() call
beyondListen == <<captureVars, pcmVars, laterVars>>

listenVars == <<listening, stream, streamEvents, isResolved, settled, taking,
                ignoreTimer>>

\* ------------------------------------------------------------ the session
\* The fields a handler reads and writes, as one record.
Session ==
    [ isCompleted |-> isCompleted, audioBuffer |-> audioBuffer,
      framesSubject |-> framesSubject, endSub |-> endSub,
      subscriber |-> subscriber, arecordProcess |-> arecordProcess,
      log |-> log, forwarded |-> forwarded, vadCalls |-> vadCalls,
      speechFrames |-> speechFrames,
      lastSpeechAt |-> lastSpeechAt, cause |-> cause, raised |-> raised,
      frames |-> frames, classified |-> classified ]

Install(s) ==
    /\ isCompleted' = s.isCompleted
    /\ audioBuffer' = s.audioBuffer
    /\ framesSubject' = s.framesSubject
    /\ endSub' = s.endSub
    /\ subscriber' = s.subscriber
    /\ arecordProcess' = s.arecordProcess
    /\ log' = s.log
    /\ forwarded' = s.forwarded
    /\ vadCalls' = s.vadCalls
    /\ speechFrames' = s.speechFrames
    /\ lastSpeechAt' = s.lastSpeechAt
    /\ cause' = s.cause
    /\ raised' = s.raised
    /\ frames' = s.frames
    /\ classified' = s.classified

Logged(s, op) == [s EXCEPT !.log = Append(@, op)]

\* ----------------------------------------------------------- construction
SessionInit ==
    /\ now = 0
    /\ config \in OptionSets
    /\ isCompleted = FALSE
    /\ audioBuffer = <<>>
    /\ framesSubject = [observers |-> <<>>, isStopped |-> FALSE]
    /\ endSub = [closed |-> TRUE, initialTimer |-> NoTimer, debounceTimer |-> NoTimer]
    /\ subscriber = "none"
    /\ arecordProcess = [listeners |-> {}, killCalls |-> 0, exited |-> FALSE,
                         errored |-> FALSE, stdoutEnded |-> FALSE,
                         signalled |-> FALSE]
    /\ log = <<>>
    /\ forwarded = <<>>
    /\ received = 0
    /\ vadCalls = 0
    /\ speechFrames = 0
    /\ lastSpeechAt = Never
    /\ decision = "none"
    /\ decidedAt = Never
    /\ decisionCount = 0
    /\ cause = "none"
    /\ triggers = {}
    /\ raised = FALSE
    /\ debounceRestarted = FALSE
    /\ frames = <<>>
    /\ classified = <<>>
    /\ pushedBytes = 0
    /\ listening = FALSE
    /\ stream = [writes |-> <<>>, endCalls |-> 0]
    /\ streamEvents = <<>>
    /\ isResolved = FALSE
    /\ settled = <<>>
    /\ taking = FALSE
    /\ ignoreTimer = NoTimer
    /\ microphones = <<>>
    /\ processes = <<>>

\* new SpeakerStream() or new ALSAAudioStream(): the process is spawned, the
\* Writable is empty
NewAudioStream(class) ==
    [class |-> class, isClosed |-> FALSE, length |-> 0, writing |-> FALSE,
     buffered |-> <<>>, needDrain |-> FALSE, ending |-> FALSE,
     finished |-> FALSE, destroyed |-> FALSE, errored |-> FALSE,
     drainOnce |-> 0, endCalls |-> 0]

\* a playback writer of this class was constructed, by speak() or by another
\* caller; nothing was written
PlaybackStart(class, bySpeak) ==
    /\ speaking = bySpeak
    /\ audioStream = NewAudioStream(class)
    /\ aplayProcess = [exited |-> FALSE, errored |-> FALSE, stdinEndCalls |-> 0,
                       stdinCloses |-> 0, stdinWrites |-> <<>>,
                       inflight |-> <<>>, maxInflight |-> 0]
    /\ ttsStream = [flowing |-> TRUE, ended |-> FALSE, errored |-> FALSE,
                    destroyed |-> FALSE]
    /\ settleCalls = <<>>
    /\ writeCalls = <<>>
    /\ emitted = <<>>
    /\ escaped = FALSE

\* no speak() call and no playback writer in use
PlaybackIdle == PlaybackStart("SpeakerStream", FALSE)

\* debounceMs = 50
DebounceMs == 50

\* hingeSwitch$(options) was called and not subscribed
NewHinge(activeHigh, subscribed) ==
    [activeHigh |-> activeHigh, subscribed |-> subscribed, stopped |-> FALSE,
     timer |-> NoTimer, hasValue |-> FALSE, lastValue |-> FALSE,
     first |-> TRUE, previousKey |-> FALSE]

HingeStart(activeHigh, subscribed) ==
    /\ hingeNow = 0
    /\ hinge = NewHinge(activeHigh, subscribed)
    /\ lastLine = [e |-> "none", at |-> Never]
    /\ lineCount = 0
    /\ hingeOut = <<>>

\* the hinge switch is not observed
HingeIdle == HingeStart(TRUE, FALSE)

\* the components around the capture session are not in use
\* no minimal flow was started
\* utils/cleanup.ts as loaded: no controller (0 is null), nothing tracked,
\* cleanupLangchain() not called.  Controllers and operations are numbered in
\* the order of their creation.  pending, log and atReturn are kept for the
\* properties: the operations not yet settled, the steps of the running
\* call, the module state when the call returned.
CleanupStart ==
    [pc |-> "idle", outcome |-> "none", failed |-> FALSE,
     activeAbortController |-> 0, created |-> 0, aborted |-> {},
     activeLangchainOperations |-> {}, registered |-> 0, pending |-> {},
     log |-> <<>>,
     atReturn |-> [active |-> FALSE, controller |-> 0, operations |-> {}]]

FlowIdle ==
    /\ cleanup = CleanupStart
    /\ isWorkflowActive = FALSE
    /\ hingeActive = FALSE
    /\ flow = [pc |-> "idle", consecutiveSilences |-> 0,
               noResponseAttempts |-> 0, flowStatus |-> "interrupted",
               stopped |-> FALSE, lateStart |-> FALSE, laterStopped |-> FALSE,
               written |-> FALSE,
               event |-> [op |-> "none", outcome |-> "none", active |-> FALSE]]
    /\ laterFlows = FALSE

LaterIdle == PlaybackIdle /\ HingeIdle /\ FlowIdle

\* no chunk has been converted
PcmIdle ==
    /\ writer = "SpeakerStream"
    /\ monoBuffer = <<>>
    /\ allocated = 0
    /\ stereoBuffer = Unwritten
    /\ original = <<>>

\* one capture session, nothing else in use
Init ==
    /\ SessionInit
    /\ PcmIdle
    /\ LaterIdle

\* --------------------------------------------------------------- teardown
\* rxjs: closing the subscription to end$ unsubscribes every operator of the
\* pipeline: both timers are cancelled, the observers leave framesSubject.
EndSubUnsubscribe(s) ==
    [s EXCEPT !.endSub = [closed |-> TRUE, initialTimer |-> NoTimer,
                          debounceTimer |-> NoTimer],
              !.framesSubject.observers = <<>>]

\* framesSubject.complete()
FramesSubjectComplete(s) ==
    IF s.framesSubject.isStopped THEN s
    ELSE [s EXCEPT !.framesSubject = [observers |-> <<>>, isStopped |-> TRUE]]

\* try { this.arecordProcess.kill() } catch (_) { /* ignore */ }
KillInTry(s, killThrows) ==
    LET s1 == [Logged(s, "kill") EXCEPT !.arecordProcess.killCalls = @ + 1] IN
    IF killThrows THEN s1
    ELSE [s1 EXCEPT !.arecordProcess.signalled = TRUE]

\* this.arecordProcess.removeAllListeners(): the listeners of the process
\* itself, not those of its stdout stream
RemoveAllListeners(s) ==
    [Logged(s, "removeAllListeners") EXCEPT
        !.arecordProcess.listeners = @ \ {"exit", "error"}]

RECURSIVE EndCapture(_, _, _)

\* the teardown without endSub.unsubscribe()
TeardownKeepsEndSub(s, trigger, killThrows) ==
    EndCapture(FramesSubjectComplete(s), trigger, killThrows)

\* the teardown the subscribe function returns
Teardown(s, trigger, killThrows) ==
    EndCapture(FramesSubjectComplete(EndSubUnsubscribe(s)), trigger, killThrows)

\* subscriber.complete(): rxjs delivers it to an open subscriber only, and
\* then unsubscribes it, which runs the teardown
SubscriberComplete(s, trigger, killThrows) ==
    LET s1 == Logged(s, "complete") IN
    IF s1.subscriber = "open"
    THEN Teardown([s1 EXCEPT !.subscriber = "completed"], trigger, killThrows)
    ELSE s1

\* endCapture without its isCompleted guard
EndCaptureUnguarded(s, trigger, killThrows) ==
    LET s1 == Logged([s EXCEPT !.isCompleted = TRUE,
                               !.cause = IF @ = "none" THEN trigger ELSE @],
                     "isCompleted")
        s2 == KillInTry(s1, killThrows)
        s3 == RemoveAllListeners(s2)
    IN  SubscriberComplete(s3, trigger, killThrows)

\* endCapture that never sets isCompleted
EndCaptureNoFlag(s, trigger, killThrows) ==
    IF s.isCompleted THEN s
    ELSE LET s1 == Logged([s EXCEPT !.cause = IF @ = "none" THEN trigger ELSE @],
                          "isCompleted")
             s2 == KillInTry(s1, killThrows)
             s3 == RemoveAllListeners(s2)
         IN  SubscriberComplete(s3, trigger, killThrows)

\* endCapture completing the subscriber before it stops the process
EndCaptureCompleteFirst(s, trigger, killThrows) ==
    IF s.isCompleted THEN s
    ELSE LET s1 == Logged([s EXCEPT !.isCompleted = TRUE, !.cause = trigger],
                          "isCompleted")
             s2 == SubscriberComplete(s1, trigger, killThrows)
             s3 == KillInTry(s2, killThrows)
         IN  RemoveAllListeners(s3)

EndCapture(s, trigger, killThrows) ==
    IF s.isCompleted THEN s
    ELSE LET s1 == Logged([s EXCEPT !.isCompleted = TRUE, !.cause = trigger],
                          "isCompleted")
             s2 == KillInTry(s1, killThrows)
             s3 == RemoveAllListeners(s2)
         IN  SubscriberComplete(s3, trigger, killThrows)

\* ------------------------------------------------- the end$ pipeline
Without(seq, o) == SelectSeq(seq, LAMBDA x : x # o)
Subscribed(s, o) == \E i \in 1..Len(s.framesSubject.observers) :
                        s.framesSubject.observers[i] = o

\* map((frame) => this.vad.process(frame)): the frame in hand is the one
\* emitVadFrames emitted last
VadProcess(s) ==
    [Logged(s, "vad.process") EXCEPT
        !.vadCalls = @ + 1,
        !.classified = Append(@, s.frames[Len(s.frames)])]

\* firstSpeech$ as the notifier of takeUntil: the first speech frame completes
\* endOnInitialSilence$, which cancels timer(maxInitialSilenceMs)
TakeUntilNextKeepsTimer(s, isSpeech) ==
    LET s1 == VadProcess(s) IN
    IF isSpeech
    THEN [s1 EXCEPT !.framesSubject.observers = Without(@, "takeUntil")]
    ELSE s1

TakeUntilNext(s, isSpeech) ==
    LET s1 == VadProcess(s) IN
    IF isSpeech
    THEN [s1 EXCEPT !.framesSubject.observers = Without(@, "takeUntil"),
                    !.endSub.initialTimer = NoTimer]
    ELSE s1

\* firstSpeech$ as the source of switchMap: the first speech frame subscribes
\* speech$.pipe(debounceTime, take(1)) to framesSubject
SwitchMapNext(s, isSpeech) ==
    LET s1 == VadProcess(s) IN
    IF isSpeech
    THEN [s1 EXCEPT !.framesSubject.observers =
                        Append(Without(@, "switchMap"), "debounceTime")]
    ELSE s1

\* debounceTime without filter(Boolean) in front of it
DebounceNextUnfiltered(s, isSpeech) ==
    [VadProcess(s) EXCEPT
        !.endSub.debounceTimer = now + config.maxTrailingSilenceMs]

\* debounceTime that keeps a pending deadline
DebounceNextNoRestart(s, isSpeech) ==
    LET s1 == VadProcess(s) IN
    IF isSpeech /\ s.endSub.debounceTimer = NoTimer
    THEN [s1 EXCEPT !.endSub.debounceTimer = now + config.maxTrailingSilenceMs]
    ELSE s1

\* speech$.pipe(debounceTime(maxTrailingSilenceMs)): every speech frame moves
\* the deadline to maxTrailingSilenceMs from now
DebounceNext(s, isSpeech) ==
    LET s1 == VadProcess(s) IN
    IF isSpeech
    THEN [s1 EXCEPT !.endSub.debounceTimer = now + config.maxTrailingSilenceMs]
    ELSE s1

ObserverNext(s, o, isSpeech) ==
    IF ~Subscribed(s, o) THEN s
    ELSE CASE o = "takeUntil" -> TakeUntilNext(s, isSpeech)
           [] o = "switchMap" -> SwitchMapNext(s, isSpeech)
           [] o = "debounceTime" -> DebounceNext(s, isSpeech)

RECURSIVE NotifyObservers(_, _, _, _)
NotifyObservers(s, snapshot, i, isSpeech) ==
    IF i > Len(snapshot) THEN s
    ELSE NotifyObservers(ObserverNext(s, snapshot[i], isSpeech),
                         snapshot, i + 1, isSpeech)

\* this.framesSubject.next(frame): rxjs notifies the observers subscribed when
\* next is called; one that subscribes during the call misses this frame
FramesSubjectNext(s, isSpeech) ==
    IF s.framesSubject.isStopped \/ s.framesSubject.observers = <<>> THEN s
    ELSE LET s1 == NotifyObservers(s, s.framesSubject.observers, 1, isSpeech) IN
         IF isSpeech
         THEN [s1 EXCEPT !.speechFrames = @ + 1,
                         !.lastSpeechAt = now]
         ELSE s1

\* ------------------------------------------------------------- the framer
\* A Buffer is the sequence of the pieces of the stream it holds, each piece
\* the bytes [lo, hi) of the stream, adjacent pieces merged: two Buffers are
\* equal exactly when they hold the same bytes in the same order.
RECURSIVE BufLen(_)
BufLen(buf) ==
    IF buf = <<>> THEN 0 ELSE (buf[1].hi - buf[1].lo) + BufLen(Tail(buf))

\* the Buffer holding the bytes of a followed by the bytes of b
Join(a, b) ==
    IF a = <<>> THEN b
    ELSE IF b = <<>> THEN a
    ELSE IF a[Len(a)].hi = b[1].lo
    THEN SubSeq(a, 1, Len(a) - 1)
            \o <<[lo |-> a[Len(a)].lo, hi |-> b[1].hi]>> \o Tail(b)
    ELSE a \o b

\* Buffer.concat([chunk, this.audioBuffer])
ConcatChunkFirst(buf, chunk) == Join(chunk, buf)

\* Buffer.concat([this.audioBuffer, chunk])
Concat(buf, chunk) == Join(buf, chunk)

RECURSIVE Subarray(_, _, _)
\* buf.subarray(start, end), 0 <= start, the end clamped to the length
Subarray(buf, start, end) ==
    IF buf = <<>> \/ end <= start THEN <<>>
    ELSE LET n == buf[1].hi - buf[1].lo
         IN  IF start >= n
             THEN Subarray(Tail(buf), start - n, end - n)
             ELSE Join(<<[lo |-> buf[1].lo + start,
                          hi |-> buf[1].lo + (IF end < n THEN end ELSE n)]>>,
                       Subarray(Tail(buf), 0, end - n))

RECURSIVE EmitVadFramesLoop(_, _, _)
\* the loop cutting the frames from the end of the buffer
EmitVadFramesLastFirst(s, cls, k) ==
    IF BufLen(s.audioBuffer) >= VAD_FRAME_BYTES
    THEN LET len == BufLen(s.audioBuffer)
             frame == Subarray(s.audioBuffer, len - VAD_FRAME_BYTES, len)
             s1 == [s EXCEPT !.frames = Append(@, frame)]
             s2 == FramesSubjectNext(s1, cls[k])
         IN  EmitVadFramesLoop(
                [s2 EXCEPT !.audioBuffer =
                              Subarray(s.audioBuffer, 0, len - VAD_FRAME_BYTES)],
                cls, k + 1)
    ELSE s

\* the loop with the condition length > VAD_FRAME_BYTES
EmitVadFramesStrict(s, cls, k) ==
    IF BufLen(s.audioBuffer) > VAD_FRAME_BYTES
    THEN LET frame == Subarray(s.audioBuffer, 0, VAD_FRAME_BYTES)
             s1 == [s EXCEPT !.frames = Append(@, frame)]
             s2 == FramesSubjectNext(s1, cls[k])
         IN  EmitVadFramesLoop(
                [s2 EXCEPT !.audioBuffer =
                     Subarray(s.audioBuffer, VAD_FRAME_BYTES,
                              BufLen(s.audioBuffer))],
                cls, k + 1)
    ELSE s

\* the loop continuing after the frame with subarray(VAD_FRAME_BYTES + 1)
EmitVadFramesSkipsByte(s, cls, k) ==
    IF BufLen(s.audioBuffer) >= VAD_FRAME_BYTES
    THEN LET frame == Subarray(s.audioBuffer, 0, VAD_FRAME_BYTES)
             s1 == [s EXCEPT !.frames = Append(@, frame)]
             s2 == FramesSubjectNext(s1, cls[k])
         IN  EmitVadFramesLoop(
                [s2 EXCEPT !.audioBuffer =
                     Subarray(s.audioBuffer, VAD_FRAME_BYTES + 1,
                              BufLen(s.audioBuffer))],
                cls, k + 1)
    ELSE s

\* the while loop of emitVadFrames, frame k classified as cls[k]; the cut is
\* taken from the buffer as it was when the frame was sliced
EmitVadFramesLoop(s, cls, k) ==
    IF BufLen(s.audioBuffer) >= VAD_FRAME_BYTES
    THEN LET frame == Subarray(s.audioBuffer, 0, VAD_FRAME_BYTES)
             s1 == [s EXCEPT !.frames = Append(@, frame)]
             s2 == FramesSubjectNext(s1, cls[k])
         IN  EmitVadFramesLoop(
                [s2 EXCEPT !.audioBuffer =
                     Subarray(s.audioBuffer, VAD_FRAME_BYTES,
                              BufLen(s.audioBuffer))],
                cls, k + 1)
    ELSE s

\* emitVadFrames(chunk, frame => this.framesSubject.next(frame))
EmitVadFrames(s, chunk, cls) ==
    EmitVadFramesLoop([s EXCEPT !.audioBuffer = Concat(@, chunk)], cls, 1)

\* if (!this.isCompleted) subscriber.next(chunk)
ForwardChunkUnguarded(s, id) ==
    [Logged(s, "next") EXCEPT !.forwarded = Append(@, id)]

\* the data handler forwarding the chunk a second time
ForwardChunkTwice(s, id) ==
    IF ~s.isCompleted
    THEN [Logged(Logged(s, "next"), "next") EXCEPT
            !.forwarded = Append(Append(@, id), id)]
    ELSE s

ForwardChunk(s, id) ==
    IF ~s.isCompleted
    THEN [Logged(s, "next") EXCEPT !.forwarded = Append(@, id)]
    ELSE s

\* ---------------------------------------------------------------- actions
\* timer(this.config.maxInitialSilenceMs) armed with the trailing timeout
InitialDeadlineFromTrailing(t) == t + config.maxTrailingSilenceMs

\* timer(this.config.maxInitialSilenceMs), subscribed at time t
InitialDeadline(t) == t + config.maxInitialSilenceMs

\* a pipeline without skipUntil: every forwarded chunk is written
MicDownstreamNoSkip ==
    /\ stream' =
          [stream EXCEPT
             !.writes = IF Len(forwarded') > Len(forwarded)
                        THEN Append(@, forwarded'[Len(forwarded')])
                        ELSE @,
             !.endCalls = IF subscriber = "open" /\ subscriber' = "completed"
                          THEN @ + 1
                          ELSE @]
    /\ ignoreTimer' = IF subscriber' = "open" THEN ignoreTimer ELSE NoTimer
    /\ UNCHANGED <<listening, streamEvents, isResolved, settled, taking>>

\* what the session's step means to listen(), the subscriber: a forwarded
\* chunk passes skipUntil once the timer has fired and is written to the
\* stream; completion calls stream.end(); closing the subscription cancels
\* timer(ignoreMs)
MicDownstream ==
    /\ stream' =
          [stream EXCEPT
             !.writes = IF Len(forwarded') > Len(forwarded) /\ taking
                        THEN Append(@, forwarded'[Len(forwarded')])
                        ELSE @,
             !.endCalls = IF subscriber = "open" /\ subscriber' = "completed"
                          THEN @ + 1
                          ELSE @]
    /\ ignoreTimer' = IF subscriber' = "open" THEN ignoreTimer ELSE NoTimer
    /\ UNCHANGED <<listening, streamEvents, isResolved, settled, taking>>

\* the subscriber is listen()'s pipeline, or an observer with no state
Downstream ==
    /\ IF listening THEN MicDownstream ELSE UNCHANGED listenVars
    /\ UNCHANGED beyondListen

\* the subscribe function of the constructor
Subscribing ==
    /\ subscriber = "none"
    /\ subscriber' = "open"
    /\ endSub' = [closed |-> FALSE, initialTimer |-> InitialDeadline(now),
                  debounceTimer |-> NoTimer]
    /\ framesSubject' = [framesSubject EXCEPT
                            !.observers = <<"takeUntil", "switchMap">>]
    /\ arecordProcess' = [arecordProcess EXCEPT
                            !.listeners = {"stdout.data", "stdout.end",
                                           "exit", "error"}]
    /\ UNCHANGED <<now, config, isCompleted, audioBuffer, log, forwarded,
                   received, vadCalls, speechFrames,
                   lastSpeechAt, decision, decidedAt, decisionCount, cause,
                   triggers, raised, debounceRestarted, pushedBytes, frames, classified>>

\* observable.subscribe(...) by an observer with no state
Subscribe ==
    /\ Subscribing
    /\ UNCHANGED <<listenVars, beyondListen>>

\* the armed deadlines of the end$ subscription
Deadlines ==
    {d \in {endSub.initialTimer, endSub.debounceTimer} : d # NoTimer}

\* every armed timer
Timers == Deadlines \cup {d \in {ignoreTimer} : d # NoTimer}

Min(S) == CHOOSE x \in S : \A y \in S : x <= y

\* time passes, up to the next armed deadline; it is followed while the
\* subscription is open or a timer is armed
Tick ==
    /\ subscriber = "open" \/ Timers # {}
    /\ now < MaxTime
    /\ \A d \in Timers : now < d
    /\ now' = Min(Timers \cup {now + TickMs})
    /\ UNCHANGED <<config, isCompleted, audioBuffer, framesSubject, endSub,
                   subscriber, arecordProcess, log, forwarded, received,
                   vadCalls, speechFrames, lastSpeechAt,
                   decision, decidedAt, decisionCount, cause, triggers, raised,
                   debounceRestarted, pushedBytes, frames, classified>>
    /\ UNCHANGED <<listenVars, beyondListen>>

\* the number of whole frames in the buffer once size more bytes are appended
FramesAfter(size) == (BufLen(audioBuffer) + size) \div VAD_FRAME_BYTES

\* a "data" handler that frames and classifies the chunk before it forwards it
DataHandlerFramesFirst(size, cls) ==
    LET chunk == <<[lo |-> pushedBytes, hi |-> pushedBytes + size]>>
        s1 == EmitVadFrames(Session, chunk, cls)
        s2 == ForwardChunk(s1, received + 1)
    IN  /\ Install(s2)
        /\ debounceRestarted' =
              (debounceRestarted \/
                 (endSub.debounceTimer # NoTimer /\
                  s2.endSub.debounceTimer > endSub.debounceTimer))
        /\ received' = received + 1
        /\ pushedBytes' = pushedBytes + size
        /\ UNCHANGED <<now, config, decision, decidedAt, decisionCount, triggers>>
        /\ Downstream

\* the body of the "data" handler for a chunk of size bytes, whose frames are
\* classified as cls
DataHandler(size, cls) ==
    LET chunk == <<[lo |-> pushedBytes, hi |-> pushedBytes + size]>>
        s1 == ForwardChunk(Session, received + 1)
        s2 == EmitVadFrames(s1, chunk, cls)
    IN  /\ Install(s2)
        /\ debounceRestarted' =
              (debounceRestarted \/
                 (endSub.debounceTimer # NoTimer /\
                  s2.endSub.debounceTimer > endSub.debounceTimer))
        /\ received' = received + 1
        /\ pushedBytes' = pushedBytes + size
        /\ UNCHANGED <<now, config, decision, decidedAt, decisionCount, triggers>>
        /\ Downstream

\* arecordProcess.stdout.on("data", chunk => ...)
StdoutData ==
    /\ "stdout.data" \in arecordProcess.listeners
    /\ ~arecordProcess.stdoutEnded
    /\ received < MaxChunks
    /\ \E size \in (IF listening THEN ListenChunkSizes ELSE ChunkSizes) :
       \E cls \in [1..FramesAfter(size) -> BOOLEAN] : DataHandler(size, cls)

\* end$ emits: timer(maxInitialSilenceMs) fired before any speech frame
InitialSilenceFire ==
    /\ ~endSub.closed
    /\ endSub.initialTimer # NoTimer
    /\ now >= endSub.initialTimer
    /\ \E killThrows \in BOOLEAN :
          Install(EndSubUnsubscribe(EndCapture(Session, "end$", killThrows)))
    /\ decision' = "initial-silence"
    /\ decidedAt' = now
    /\ decisionCount' = decisionCount + 1
    /\ triggers' = triggers \cup {"end$"}
    /\ UNCHANGED <<now, config, received, debounceRestarted, pushedBytes>>
    /\ Downstream

\* end$ emits: debounceTime(maxTrailingSilenceMs) elapsed after a speech frame
TrailingSilenceFire ==
    /\ ~endSub.closed
    /\ endSub.debounceTimer # NoTimer
    /\ now >= endSub.debounceTimer
    /\ \E killThrows \in BOOLEAN :
          Install(EndSubUnsubscribe(EndCapture(Session, "end$", killThrows)))
    /\ decision' = "trailing-silence"
    /\ decidedAt' = now
    /\ decisionCount' = decisionCount + 1
    /\ triggers' = triggers \cup {"end$"}
    /\ UNCHANGED <<now, config, received, debounceRestarted, pushedBytes>>
    /\ Downstream

\* a once() listener is removed before its handler runs
Emitted(s, event, flag) ==
    [s EXCEPT !.arecordProcess.listeners = @ \ {event},
              !.arecordProcess[flag] = TRUE]

\* arecordProcess.stdout.once("end", () => this.endCapture(subscriber))
StdoutEnd ==
    /\ subscriber # "none"
    /\ ~arecordProcess.stdoutEnded
    /\ \E killThrows \in BOOLEAN :
          LET s1 == Emitted(Session, "stdout.end", "stdoutEnded") IN
          IF "stdout.end" \in arecordProcess.listeners
          THEN Install(EndCapture(s1, "stdout.end", killThrows))
          ELSE Install(s1)
    /\ triggers' = triggers \cup {"stdout.end"}
    /\ UNCHANGED <<now, config, received, decision, decidedAt, decisionCount,
                   debounceRestarted, pushedBytes>>
    /\ Downstream

\* arecordProcess.once("exit", () => this.endCapture(subscriber))
ProcessExit ==
    /\ subscriber # "none"
    /\ ~arecordProcess.exited
    /\ \E killThrows \in BOOLEAN :
          LET s1 == Emitted(Session, "exit", "exited") IN
          IF "exit" \in arecordProcess.listeners
          THEN Install(EndCapture(s1, "exit", killThrows))
          ELSE Install(s1)
    /\ triggers' = triggers \cup {"exit"}
    /\ UNCHANGED <<now, config, received, decision, decidedAt, decisionCount,
                   debounceRestarted, pushedBytes>>
    /\ Downstream

\* arecordProcess.once("error", () => this.endCapture(subscriber)); node emits
\* 'error' for a failed spawn or a failed kill, not after the process is gone
ProcessError ==
    /\ subscriber # "none"
    /\ ~arecordProcess.errored
    /\ ~arecordProcess.exited
    /\ arecordProcess.killCalls = 0
    /\ \E killThrows \in BOOLEAN :
          LET s1 == Emitted(Session, "error", "errored") IN
          IF "error" \in arecordProcess.listeners
          THEN Install(EndCapture(s1, "error", killThrows))
          ELSE Install([s1 EXCEPT !.raised = TRUE])
    /\ triggers' = triggers \cup {"error"}
    /\ UNCHANGED <<now, config, received, decision, decidedAt, decisionCount,
                   debounceRestarted, pushedBytes>>
    /\ Downstream

\* subscription.unsubscribe() by the caller: rxjs stops an open subscriber and
\* then runs the teardown; on a closed subscription it does nothing
Unsubscribing ==
    /\ subscriber # "none"
    /\ \E killThrows \in BOOLEAN :
          IF subscriber = "open"
          THEN Install(Teardown([Session EXCEPT !.subscriber = "unsubscribed"],
                                "unsubscribe", killThrows))
          ELSE Install(Session)
    /\ triggers' = triggers \cup {"unsubscribe"}
    /\ UNCHANGED <<now, config, received, decision, decidedAt, decisionCount,
                   debounceRestarted, pushedBytes>>

\* subscription.unsubscribe() by an observer with no state
Unsubscribe ==
    /\ Unsubscribing
    /\ UNCHANGED <<listenVars, beyondListen>>

Next ==
    \/ Subscribe
    \/ Tick
    \/ StdoutData
    \/ InitialSilenceFire
    \/ TrailingSilenceFire
    \/ StdoutEnd
    \/ ProcessExit
    \/ ProcessError
    \/ Unsubscribe

Spec == Init /\ [][Next]_vars

\* ---------------------------------------------------------------- listen
\* the promise executor of listen(): the configuration is written to the new
\* stream, the microphone pipeline is subscribed, the handlers are attached
Listen ==
    /\ ~listening
    /\ Subscribing
    /\ listening' = TRUE
    /\ stream' = [stream EXCEPT !.writes = Append(@, "config")]
    /\ ignoreTimer' = now + IgnoreMs
    /\ UNCHANGED <<streamEvents, isResolved, settled, taking, beyondListen>>

\* timer(ignoreMs) fires: skipUntil starts taking
SkipUntilFire ==
    /\ ignoreTimer # NoTimer
    /\ now >= ignoreTimer
    /\ taking' = TRUE
    /\ ignoreTimer' = NoTimer
    /\ UNCHANGED <<now, config, isCompleted, audioBuffer, framesSubject, endSub,
                   subscriber, arecordProcess, log, forwarded, received,
                   vadCalls, speechFrames, lastSpeechAt, decision, decidedAt,
                   decisionCount, cause, triggers, raised, debounceRestarted,
                   frames, classified, pushedBytes,
                   listening, stream, streamEvents, isResolved, settled,
                   beyondListen>>

\* the handlers settling without looking at isResolved
SettleUnguarded(outcome) ==
    /\ isResolved' = TRUE
    /\ settled' = Append(settled, outcome)

\* if (!isResolved) { isResolved = true; resolve(...) or reject(err) }
Settle(outcome) ==
    IF ~isResolved
    THEN /\ isResolved' = TRUE
         /\ settled' = Append(settled, outcome)
    ELSE UNCHANGED <<isResolved, settled>>

\* how often the stream has emitted the event
Emissions(event) ==
    Cardinality({i \in 1..Len(streamEvents) : streamEvents[i] = event})

\* an error handler that leaves the microphone subscribed
StreamErrorStaysSubscribed ==
    /\ listening
    /\ Emissions("error") < MaxStreamErrors
    /\ streamEvents' = Append(streamEvents, "error")
    /\ Settle("reject")
    /\ UNCHANGED <<now, config, isCompleted, audioBuffer, framesSubject,
                   endSub, subscriber, arecordProcess, log, forwarded,
                   received, vadCalls, speechFrames, lastSpeechAt, decision,
                   decidedAt, decisionCount, cause, triggers, raised,
                   debounceRestarted, frames, classified, pushedBytes,
                   listening, stream, taking, ignoreTimer, beyondListen>>

\* stream.on("error", ...)
StreamError ==
    /\ listening
    /\ Emissions("error") < MaxStreamErrors
    /\ streamEvents' = Append(streamEvents, "error")
    /\ Unsubscribing
    /\ Settle("reject")
    /\ ignoreTimer' = NoTimer
    /\ UNCHANGED <<listening, stream, taking, beyondListen>>

\* an end handler that resolves and leaves the microphone subscribed
StreamEndStaysSubscribed ==
    /\ listening
    /\ Emissions("end") = 0
    /\ streamEvents' = Append(streamEvents, "end")
    /\ Settle("resolve")
    /\ UNCHANGED <<now, config, isCompleted, audioBuffer, framesSubject,
                   endSub, subscriber, arecordProcess, log, forwarded,
                   received, vadCalls, speechFrames, lastSpeechAt, decision,
                   decidedAt, decisionCount, cause, triggers, raised,
                   debounceRestarted, frames, classified, pushedBytes,
                   listening, stream, taking, ignoreTimer, beyondListen>>

\* stream.on("end", ...): a readable stream ends once
StreamEnd ==
    /\ listening
    /\ Emissions("end") = 0
    /\ streamEvents' = Append(streamEvents, "end")
    /\ Unsubscribing
    /\ Settle("resolve")
    /\ ignoreTimer' = NoTimer
    /\ UNCHANGED <<listening, stream, taking, beyondListen>>

ListenNext ==
    \/ Listen
    \/ Tick
    \/ SkipUntilFire
    \/ StdoutData
    \/ InitialSilenceFire
    \/ TrailingSilenceFire
    \/ StdoutEnd
    \/ ProcessExit
    \/ ProcessError
    \/ StreamError
    \/ StreamEnd

\* listen() called without options
ListenInit ==
    /\ Init
    /\ config = DEFAULT_CONFIG

ListenSpec == ListenInit /\ [][ListenNext]_vars

\* -------------------------------------------- sessions and their processes
\* the variables of one session and of its listen() call
sessionVars ==
    <<now, config, isCompleted, audioBuffer, framesSubject, endSub,
      subscriber, arecordProcess, log, forwarded, received, vadCalls,
      speechFrames, lastSpeechAt, decision, decidedAt,
      decisionCount, cause, triggers, raised, debounceRestarted,
      frames, classified, pushedBytes, listenVars>>

\* a start that hands out the process of an earlier session while it runs
StartArecordProcessShared ==
    IF \E p \in 1..Len(processes) : processes[p].running
    THEN [pid |-> CHOOSE p \in 1..Len(processes) : processes[p].running,
          processes |-> processes]
    ELSE [pid |-> Len(processes) + 1,
          processes |-> Append(processes,
                               [running |-> TRUE, killCalls |-> 0,
                                listeners |-> {}])]

\* startArecordProcess(): spawn returns a new child process
StartArecordProcess ==
    [pid |-> Len(processes) + 1,
     processes |-> Append(processes,
                          [running |-> TRUE, killCalls |-> 0,
                           listeners |-> {}])]

\* new MicrophoneObservable(options) and its subscription by listen(): the
\* constructor keeps the process it started in this.arecordProcess, the
\* subscribe function attaches the session's handlers to it
NewMicrophone ==
    /\ Len(microphones) < MaxSessions
    /\ LET started == StartArecordProcess
           m == Len(microphones) + 1
       IN  /\ microphones' = Append(microphones,
                                    [arecordProcess |-> started.pid,
                                     isCompleted |-> FALSE])
           /\ processes' = [started.processes EXCEPT
                               ![started.pid].listeners = @ \cup {m}]
    /\ UNCHANGED <<sessionVars, pcmVars, laterVars>>

\* endCapture of session m: kill() and removeAllListeners() on its process
MicrophoneEndCapture(procs, m) ==
    [procs EXCEPT ![microphones[m].arecordProcess] =
        [@ EXCEPT !.killCalls = @ + 1,
                  !.listeners = @ \ {m}]]

RECURSIVE EndCaptureAll(_, _)
EndCaptureAll(procs, ms) ==
    IF ms = {} THEN procs
    ELSE LET m == CHOOSE x \in ms : TRUE
         IN  EndCaptureAll(MicrophoneEndCapture(procs, m), ms \ {m})

\* session m ends by an endpoint decision or by unsubscribe()
SessionEnds ==
    /\ \E m \in 1..Len(microphones) :
          /\ ~microphones[m].isCompleted
          /\ microphones' = [microphones EXCEPT ![m].isCompleted = TRUE]
          /\ processes' = MicrophoneEndCapture(processes, m)
    /\ UNCHANGED <<sessionVars, pcmVars, laterVars>>

\* process p exits, after a kill or by itself: the sessions whose handlers
\* are attached to it run endCapture
ArecordExits ==
    /\ \E p \in 1..Len(processes) :
          /\ processes[p].running
          /\ LET ms == processes[p].listeners
             IN  /\ microphones' =
                       [m \in 1..Len(microphones) |->
                           IF m \in ms
                           THEN [microphones[m] EXCEPT !.isCompleted = TRUE]
                           ELSE microphones[m]]
                 /\ processes' =
                       EndCaptureAll([processes EXCEPT ![p].running = FALSE],
                                     ms)
    /\ UNCHANGED <<sessionVars, pcmVars, laterVars>>

CaptureNext ==
    \/ NewMicrophone
    \/ SessionEnds
    \/ ArecordExits

CaptureSpec == Init /\ [][CaptureNext]_vars

\* --------------------------------------------------- mono to stereo
\* all buffers of n bytes drawn from bytes
BuffersOf(bytes, n) == [1..n -> bytes]

\* the chunk one channel of a stereo buffer gives: frame k of the stereo
\* buffer is 4 bytes, the sample of channel ch the 2 bytes at 4k + 2ch
ToMono(stereo, ch) ==
    [i \in 1..(Len(stereo) \div 2) |->
        stereo[4 * ((i - 1) \div 2) + 2 * ch + ((i - 1) % 2) + 1]]

\* buf.readUInt16LE(offset)
ReadUInt16LE(buf, offset) ==
    IF offset + 2 > Len(buf)
    THEN [thrown |-> TRUE, value |-> 0]
    ELSE [thrown |-> FALSE, value |-> buf[offset + 1] + 256 * buf[offset + 2]]

\* buf.readInt16LE(offset): RangeError beyond the end, else the two bytes as
\* a signed 16-bit integer
ReadInt16LE(buf, offset) ==
    IF offset + 2 > Len(buf)
    THEN [thrown |-> TRUE, value |-> 0]
    ELSE LET u == buf[offset + 1] + 256 * buf[offset + 2]
         IN  [thrown |-> FALSE,
              value |-> IF u >= 32768 THEN u - 65536 ELSE u]

\* buf.writeInt16LE(value, offset): RangeError for a value that is not a
\* signed 16-bit integer or an offset beyond the end
WriteInt16LE(buf, value, offset) ==
    IF value < -32768 \/ value > 32767 \/ offset + 2 > Len(buf.bytes)
    THEN [thrown |-> TRUE, bytes |-> buf.bytes]
    ELSE LET u == (value + 65536) % 65536
         IN  [thrown |-> FALSE,
              bytes |-> [buf.bytes EXCEPT ![offset + 1] = u % 256,
                                          ![offset + 2] = u \div 256]]

RECURSIVE ToStereoLoop(_, _, _)
\* the loop writing the right channel at outIndex + 1
ToStereoLoopOverlap(mono, stereo, i) ==
    IF i >= Len(mono) THEN stereo
    ELSE LET sample == ReadInt16LE(mono, i)
             outIndex == i * 2
             left == WriteInt16LE(stereo, sample.value, outIndex)
             right == WriteInt16LE(left, sample.value, outIndex + 1)
         IN  IF sample.thrown \/ left.thrown \/ right.thrown
             THEN [thrown |-> TRUE, bytes |-> <<>>]
             ELSE ToStereoLoop(mono, right, i + 2)

\* for (let i = 0; i < monoBuffer.length; i += 2) { ... }; an exception
\* leaves the loop and no buffer is returned
ToStereoLoop(mono, stereo, i) ==
    IF i >= Len(mono) THEN stereo
    ELSE LET sample == ReadInt16LE(mono, i)
             outIndex == i * 2
             left == WriteInt16LE(stereo, sample.value, outIndex)
             right == WriteInt16LE(left, sample.value, outIndex + 2)
         IN  IF sample.thrown \/ left.thrown \/ right.thrown
             THEN [thrown |-> TRUE, bytes |-> <<>>]
             ELSE ToStereoLoop(mono, right, i + 2)

\* toStereo(monoBuffer), and the same loop in ALSAAudioStream._write; mem is
\* the content of the memory Buffer.allocUnsafe or Buffer.alloc returns
ToStereo(mono, mem) ==
    ToStereoLoop(mono,
                 [thrown |-> FALSE,
                  bytes |-> [i \in 1..(Len(mono) * 2) |-> mem]],
                 0)

\* the chunks a playback writer is given: any chunk, or one channel of a
\* stereo buffer; Buffer.allocUnsafe returns memory of any content,
\* Buffer.alloc zeroes
PcmInit ==
    /\ SessionInit
    /\ config = DEFAULT_CONFIG
    /\ writer \in {"SpeakerStream", "ALSAAudioStream"}
    /\ allocated \in (IF writer = "SpeakerStream" THEN {0, 255} ELSE {0})
    /\ \/ /\ original = <<>>
          /\ \E n \in 0..MaxMonoLen : monoBuffer \in BuffersOf(PcmBytes, n)
       \/ /\ \E n \in 1..MaxStereoFrames :
                original \in BuffersOf(StereoBytes, 4 * n)
          /\ \E ch \in {0, 1} : monoBuffer = ToMono(original, ch)
    /\ stereoBuffer = Unwritten
    /\ LaterIdle

\* _write with the process available: the chunk is converted
ConvertChunk ==
    /\ stereoBuffer = Unwritten
    /\ stereoBuffer' = ToStereo(monoBuffer, allocated)
    /\ UNCHANGED <<sessionVars, captureVars, writer, monoBuffer, allocated,
                   original, laterVars>>

PcmNext == ConvertChunk

PcmSpec == PcmInit /\ [][PcmNext]_vars

\* ------------------------------------------------- the playback writer
\* The fields a handler of the playback side reads and writes, as one
\* record; throwing says that an exception is propagating.  Callbacks that
\* node defers with process.nextTick run before the next event is handled,
\* so a handler and the ticks it schedules are one step.
Playback ==
    [ audioStream |-> audioStream, aplayProcess |-> aplayProcess,
      ttsStream |-> ttsStream, settleCalls |-> settleCalls,
      writeCalls |-> writeCalls, emitted |-> emitted, throwing |-> FALSE ]

InstallPlayback(k) ==
    /\ audioStream' = k.audioStream
    /\ aplayProcess' = k.aplayProcess
    /\ ttsStream' = k.ttsStream
    /\ settleCalls' = k.settleCalls
    /\ writeCalls' = k.writeCalls
    /\ emitted' = k.emitted

\* resolve() or reject(err) of speak()'s promise
SettleCall(k, call) ==
    [k EXCEPT !.settleCalls =
        Append(@, [call |-> call, exited |-> k.aplayProcess.exited])]

\* audioStream.on("close", () => resolve())
OnClose(k) == IF speaking THEN SettleCall(k, "resolve") ELSE k

\* audioStream.on("error", (err) => { stream.destroy(); reject(err) })
OnError(k) ==
    IF speaking
    THEN SettleCall([k EXCEPT !.ttsStream.destroyed = TRUE], "reject")
    ELSE k

\* audioStream.once("drain", () => stream.resume())
OnDrain(k) ==
    IF k.audioStream.drainOnce > 0
    THEN [k EXCEPT !.audioStream.drainOnce = 0, !.ttsStream.flowing = TRUE]
    ELSE k

\* audioStream.emit(event)
Emit(k, event) ==
    LET k1 == [k EXCEPT !.emitted = Append(@, event)]
    IN  CASE event = "close" -> OnClose(k1)
          [] event = "error" -> OnError(k1)
          [] event = "drain" -> OnDrain(k1)
          [] OTHER -> k1

\* the callback of write call id is given the answer
Answer(k, id, answer) == [k EXCEPT !.writeCalls[id].answer = answer]

RECURSIVE AnswerAll(_, _, _)
AnswerAll(k, chunks, answer) ==
    IF chunks = <<>> THEN k
    ELSE AnswerAll(Answer(k, chunks[1].id, answer), Tail(chunks), answer)

\* Writable: errorOrDestroy with autoDestroy: the first error destroys the
\* stream, the queued chunks are answered with the error, 'error' and then
\* 'close' are emitted
ErrorOrDestroy(k) ==
    IF k.audioStream.destroyed THEN k
    ELSE LET k1 == AnswerAll(k, k.audioStream.buffered, "error")
         IN  Emit(Emit([k1 EXCEPT !.audioStream.destroyed = TRUE,
                                  !.audioStream.errored = TRUE,
                                  !.audioStream.buffered = <<>>],
                       "error"),
                  "close")

\* Writable: the callback of _write is called with an error
OnwriteError(k, id) ==
    LET k1 == Answer(k, id, "error")
    IN  ErrorOrDestroy([k1 EXCEPT !.audioStream.writing = FALSE,
                                  !.audioStream.length =
                                      @ - k.writeCalls[id].length])

\* Writable: finishMaybe: once end() was called and nothing is pending,
\* 'finish' is emitted and autoDestroy destroys the stream, which emits
\* 'close'
FinishMaybe(k) ==
    LET w == k.audioStream
    IN  IF /\ w.ending /\ ~w.destroyed /\ ~w.errored /\ ~w.finished
           /\ w.length = 0 /\ w.buffered = <<>> /\ ~w.writing
        THEN Emit(Emit([k EXCEPT !.audioStream.finished = TRUE,
                                 !.audioStream.destroyed = TRUE],
                       "finish"),
                  "close")
        ELSE k

\* this.aplayProcess.stdin.write(stereoBuffer, callback): stdin takes the
\* buffer and calls back later; a stdin that was ended answers with an error
\* and emits 'error', which has no listener; a stdin destroyed with its
\* process answers with an error
StdinWrite(k, chunk) ==
    IF k.aplayProcess.stdinCloses > 0
    THEN [OnwriteError(k, chunk.id) EXCEPT !.throwing = TRUE]
    ELSE IF k.aplayProcess.exited \/ k.aplayProcess.errored
    THEN OnwriteError(k, chunk.id)
    ELSE [k EXCEPT !.aplayProcess.stdinWrites = Append(@, chunk.id),
                   !.aplayProcess.inflight = Append(@, chunk.id),
                   !.aplayProcess.maxInflight =
                       IF Len(k.aplayProcess.inflight) + 1 > @
                       THEN Len(k.aplayProcess.inflight) + 1
                       ELSE @]

\* toStereo(monoBuffer) of a chunk of this length: readInt16LE throws at the
\* last byte of an odd length
ToStereoThrows(chunk) == chunk.length % 2 = 1

RECURSIVE Onwrite(_, _)
\* a _write that hands the buffer to stdin and calls back at once
SpeakerWriteEarlyCallback(k, chunk) ==
    IF k.audioStream.class = "SpeakerStream" /\ k.audioStream.isClosed
    THEN OnwriteError(k, chunk.id)
    ELSE IF ToStereoThrows(chunk)
    THEN [Answer(k, chunk.id, "threw") EXCEPT !.throwing = TRUE]
    ELSE LET k1 == StdinWrite(k, chunk)
         IN  IF k1.writeCalls[chunk.id].answer = "pending"
             THEN Onwrite(k1, chunk.id)
             ELSE k1

\* _write(chunk, encoding, callback) of SpeakerStream and ALSAAudioStream
SpeakerWrite(k, chunk) ==
    IF k.audioStream.class = "SpeakerStream" /\ k.audioStream.isClosed
    THEN OnwriteError(k, chunk.id)
    ELSE IF ToStereoThrows(chunk)
    THEN [Answer(k, chunk.id, "threw") EXCEPT !.throwing = TRUE]
    ELSE StdinWrite(k, chunk)

\* Writable: the callback of _write is called without error: the next queued
\* chunk is handed to _write, then 'drain' is emitted if it is due, then the
\* stream finishes if it can
Onwrite(k, id) ==
    LET k1 == [Answer(k, id, "ok") EXCEPT
                  !.audioStream.writing = FALSE,
                  !.audioStream.length = @ - k.writeCalls[id].length]
        queue == k1.audioStream.buffered
        k2 == IF queue # <<>>
              THEN SpeakerWrite([k1 EXCEPT !.audioStream.buffered = Tail(queue),
                                           !.audioStream.writing = TRUE],
                                queue[1])
              ELSE k1
        w == k2.audioStream
        k3 == IF ~w.ending /\ ~w.destroyed /\ w.length = 0 /\ w.needDrain
              THEN Emit([k2 EXCEPT !.audioStream.needDrain = FALSE], "drain")
              ELSE k2
    IN  IF k2.throwing THEN k2 ELSE FinishMaybe(k3)

\* whether a write call ended with this result
Result(b) == IF b THEN "true" ELSE "false"

\* audioStream.write(chunk) of Writable: refused after end() and after
\* destroy, else counted, and handed to _write unless a write is pending
WritableWrite(k, len) ==
    LET id == Len(k.writeCalls) + 1
        chunk == [id |-> id, length |-> len]
        w == k.audioStream
        call == [length |-> len, closed |-> w.isClosed, queued |-> w.writing,
                 awaiting |-> w.drainOnce > 0, ended |-> w.endCalls > 0,
                 result |-> "none", answer |-> "pending"]
        k0 == [k EXCEPT !.writeCalls = Append(@, call)]
    IN  IF w.ending
        THEN [ErrorOrDestroy(Answer(k0, id, "error")) EXCEPT
                 !.writeCalls[id].result = "false"]
        ELSE IF w.destroyed
        THEN [Answer(k0, id, "error") EXCEPT !.writeCalls[id].result = "false"]
        ELSE LET ret == w.length + len < HighWaterMark
                 k1 == [k0 EXCEPT !.audioStream.length = @ + len,
                                  !.audioStream.needDrain = @ \/ ~ret]
                 k2 == IF w.writing \/ w.errored
                       THEN [k1 EXCEPT !.audioStream.buffered = Append(@, chunk)]
                       ELSE SpeakerWrite([k1 EXCEPT !.audioStream.writing = TRUE],
                                         chunk)
             IN  [k2 EXCEPT !.writeCalls[id].result =
                     IF k2.throwing THEN "threw"
                     ELSE Result(ret /\ ~k2.audioStream.errored
                                     /\ ~k2.audioStream.destroyed)]

\* this.aplayProcess.stdin.end(): the first call closes stdin
StdinEnd(k) ==
    [k EXCEPT !.aplayProcess.stdinEndCalls = @ + 1,
              !.aplayProcess.stdinCloses =
                  IF @ = 0 /\ ~k.aplayProcess.exited /\ ~k.aplayProcess.errored
                  THEN 1 ELSE @]

\* super.end() of Writable: the first call starts the end of the stream
WritableEnd(k) ==
    IF ~k.audioStream.errored /\ ~k.audioStream.ending
    THEN FinishMaybe([k EXCEPT !.audioStream.ending = TRUE])
    ELSE k

\* an end() that ends stdin whether or not the writer is closed
SpeakerEndUnguarded(k) ==
    WritableEnd([StdinEnd([k EXCEPT !.audioStream.endCalls = @ + 1])
                    EXCEPT !.audioStream.isClosed = TRUE])

\* end() of SpeakerStream and of ALSAAudioStream
SpeakerEnd(k) ==
    LET k0 == [k EXCEPT !.audioStream.endCalls = @ + 1]
    IN  IF k.audioStream.class = "SpeakerStream"
        THEN IF ~k.audioStream.isClosed
             THEN WritableEnd([StdinEnd(k0) EXCEPT !.audioStream.isClosed = TRUE])
             ELSE WritableEnd(k0)
        ELSE WritableEnd(StdinEnd(k0))

\* the "exit" handler of attachProcessLifecycle, and of ALSAAudioStream
OnAplayExit(k) ==
    IF k.audioStream.class = "SpeakerStream"
    THEN Emit([k EXCEPT !.audioStream.isClosed = TRUE], "close")
    ELSE Emit(k, "close")

\* the variables outside the playback side
besidePlayback == <<sessionVars, captureVars, pcmVars, hingeVars, flowVars>>

\* the stdin write that is in flight completes
StdinWriteDone ==
    /\ ~escaped
    /\ aplayProcess.inflight # <<>>
    /\ LET id == Head(aplayProcess.inflight)
           k == Onwrite([Playback EXCEPT !.aplayProcess.inflight = Tail(@)], id)
       IN  /\ InstallPlayback(k)
           /\ escaped' = k.throwing
    /\ UNCHANGED <<speaking, besidePlayback>>

RECURSIVE FailInflight(_)
\* the stdin writes in flight when stdin is destroyed call back with an error
FailInflight(k) ==
    IF k.aplayProcess.inflight = <<>> THEN k
    ELSE FailInflight(OnwriteError(
             [k EXCEPT !.aplayProcess.inflight = Tail(@)],
             Head(k.aplayProcess.inflight)))

\* aplay exits: node destroys its stdin and emits "exit"
AplayExit ==
    /\ ~escaped
    /\ ~aplayProcess.exited
    /\ ~aplayProcess.errored
    /\ LET k == FailInflight(OnAplayExit(
                    [Playback EXCEPT !.aplayProcess.exited = TRUE]))
       IN  InstallPlayback(k)
    /\ UNCHANGED <<speaking, escaped, besidePlayback>>

\* aplay could not be spawned: node destroys its stdin and emits "error" in
\* the tick after the constructor
AplayError ==
    /\ ~escaped
    /\ ~aplayProcess.exited
    /\ ~aplayProcess.errored
    /\ writeCalls = <<>>
    /\ audioStream.endCalls = 0
    /\ InstallPlayback(Emit([Playback EXCEPT !.aplayProcess.errored = TRUE],
                            "error"))
    /\ UNCHANGED <<speaking, escaped, besidePlayback>>

\* a caller of the writer calls write(chunk); an exception of _write is the
\* caller's to catch
ClientWrite ==
    /\ ~speaking
    /\ ~escaped
    /\ Len(writeCalls) < MaxWrites
    /\ \E len \in WriteLengths : InstallPlayback(WritableWrite(Playback, len))
    /\ UNCHANGED <<speaking, escaped, besidePlayback>>

\* a caller of the writer calls end()
ClientEnd ==
    /\ ~speaking
    /\ ~escaped
    /\ audioStream.endCalls < MaxEnds
    /\ InstallPlayback(SpeakerEnd(Playback))
    /\ UNCHANGED <<speaking, escaped, besidePlayback>>

WriterInit ==
    /\ SessionInit
    /\ PcmIdle
    /\ HingeIdle
    /\ FlowIdle
    /\ \E class \in {"SpeakerStream", "ALSAAudioStream"} :
           PlaybackStart(class, FALSE)

WriterNext ==
    \/ ClientWrite
    \/ ClientEnd
    \/ StdinWriteDone
    \/ AplayExit
    \/ AplayError

WriterSpec == WriterInit /\ [][WriterNext]_vars

\* ------------------------------------------------------------- speak()
\* a "data" handler that writes the chunk and never pauses
OnTtsDataNoPause(k, len) == WritableWrite(k, len)

\* stream.on("data", ...): the chunk is written; when write() returns false
\* the synthesizer stream is paused until the next "drain"
OnTtsData(k, len) ==
    LET k1 == WritableWrite(k, len)
    IN  IF k1.writeCalls[Len(k1.writeCalls)].result = "false"
        THEN [k1 EXCEPT !.ttsStream.flowing = FALSE,
                        !.audioStream.drainOnce = @ + 1]
        ELSE k1

\* the synthesizer stream delivers a chunk of audio
TtsData ==
    /\ speaking
    /\ ~escaped
    /\ ttsStream.flowing
    /\ ~ttsStream.ended /\ ~ttsStream.errored /\ ~ttsStream.destroyed
    /\ Len(writeCalls) < MaxWrites
    /\ \E len \in WriteLengths :
           LET k == OnTtsData(Playback, len)
           IN  /\ InstallPlayback(k)
               /\ escaped' = k.throwing
    /\ UNCHANGED <<speaking, besidePlayback>>

\* stream.on("end", () => audioStream.end())
TtsEnd ==
    /\ speaking
    /\ ~escaped
    /\ ttsStream.flowing
    /\ ~ttsStream.ended /\ ~ttsStream.errored /\ ~ttsStream.destroyed
    /\ InstallPlayback(SpeakerEnd([Playback EXCEPT !.ttsStream.ended = TRUE]))
    /\ UNCHANGED <<speaking, escaped, besidePlayback>>

\* stream.on("error", (err) => { audioStream.end(); reject(err) })
TtsError ==
    /\ speaking
    /\ ~escaped
    /\ ~ttsStream.errored /\ ~ttsStream.destroyed
    /\ InstallPlayback(SettleCall(
           SpeakerEnd([Playback EXCEPT !.ttsStream.errored = TRUE]), "reject"))
    /\ UNCHANGED <<speaking, escaped, besidePlayback>>

SpeakInit ==
    /\ SessionInit
    /\ PcmIdle
    /\ HingeIdle
    /\ FlowIdle
    /\ \E class \in {"SpeakerStream", "ALSAAudioStream"} :
           PlaybackStart(class, TRUE)

SpeakNext ==
    \/ TtsData
    \/ TtsEnd
    \/ TtsError
    \/ StdinWriteDone
    \/ AplayExit
    \/ AplayError

SpeakSpec == SpeakInit /\ [][SpeakNext]_vars

\* -------------------------------------------------------- hingeSwitch$
\* the lines gpiomon may print: the two edge events and anything else
GpiomonLines == {"0", "1", "?"}

\* filter((s) => s === "0" || s === "1")
IsEdge(s) == s = "0" \/ s = "1"

\* map: rising = e === "1"; pressed = rising === activeHigh
Pressed(e, activeHigh) == (e = "1") = activeHigh

\* the variables outside the hinge switch
besideHinge == <<sessionVars, captureVars, pcmVars, playbackVars, flowVars>>

\* a debounce that keeps the first value of a burst
HingeDebounceKeepsFirst(h, value, at) ==
    [h EXCEPT !.lastValue = IF h.hasValue THEN @ ELSE value,
              !.hasValue = TRUE, !.timer = at + DebounceMs]

\* rxjs debounceTime, a value arrives: it replaces the pending one and the
\* quiet period starts again
HingeDebounce(h, value, at) ==
    [h EXCEPT !.lastValue = value, !.hasValue = TRUE,
              !.timer = at + DebounceMs]

\* rxjs distinctUntilChanged followed by the subscriber: the value is passed
\* on when it is the first or differs from the previous one
DistinctUntilChanged(h, out, value, flushed) ==
    IF h.first \/ h.previousKey # value
    THEN [h |-> [h EXCEPT !.first = FALSE, !.previousKey = value],
          out |-> Append(out, [value |-> value, at |-> hingeNow,
                               line |-> lastLine, flushed |-> flushed])]
    ELSE [h |-> h, out |-> out]

\* rxjs debounceTime emits the pending value
HingeDebounceEmit(h, out, flushed) ==
    IF h.hasValue
    THEN DistinctUntilChanged([h EXCEPT !.hasValue = FALSE, !.timer = NoTimer],
                              out, h.lastValue, flushed)
    ELSE [h |-> [h EXCEPT !.timer = NoTimer], out |-> out]

HingeRunning == hinge.subscribed /\ ~hinge.stopped

\* rl.on("line", onLine): gpiomon printed a line
GpiomonLine ==
    /\ HingeRunning
    /\ lineCount < MaxLines
    /\ lineCount' = lineCount + 1
    /\ \E s \in GpiomonLines :
           IF IsEdge(s)
           THEN /\ hinge' = HingeDebounce(hinge, Pressed(s, hinge.activeHigh),
                                         hingeNow)
                /\ lastLine' = [e |-> s, at |-> hingeNow]
           ELSE UNCHANGED <<hinge, lastLine>>
    /\ UNCHANGED <<hingeNow, hingeOut, besideHinge>>

\* time passes, up to the end of the quiet period
HingeTick ==
    /\ HingeRunning
    /\ hingeNow < MaxHingeTime
    /\ hinge.timer # NoTimer => hingeNow < hinge.timer
    /\ hingeNow' = IF hinge.timer # NoTimer /\ hinge.timer < hingeNow + HingeTickMs
                   THEN hinge.timer
                   ELSE hingeNow + HingeTickMs
    /\ UNCHANGED <<hinge, lastLine, lineCount, hingeOut, besideHinge>>

\* the quiet period of debounceTime(debounceMs) is over
DebounceFire ==
    /\ HingeRunning
    /\ hinge.timer = hingeNow
    /\ LET r == HingeDebounceEmit(hinge, hingeOut, FALSE)
       IN  /\ hinge' = r.h
           /\ hingeOut' = r.out
    /\ UNCHANGED <<hingeNow, lastLine, lineCount, besideHinge>>

\* proc.on("close", onClose): the source completes; debounceTime emits the
\* pending value and completes
GpiomonClose ==
    /\ HingeRunning
    /\ LET r == HingeDebounceEmit(hinge, hingeOut, TRUE)
       IN  /\ hinge' = [r.h EXCEPT !.stopped = TRUE]
           /\ hingeOut' = r.out
    /\ UNCHANGED <<hingeNow, lastLine, lineCount, besideHinge>>

\* proc.stderr.on("data", onErr) and proc.on("error", onSpawnErr): the source
\* fails; the pending value is dropped
GpiomonError ==
    /\ HingeRunning
    /\ hinge' = [hinge EXCEPT !.stopped = TRUE, !.timer = NoTimer,
                              !.hasValue = FALSE]
    /\ UNCHANGED <<hingeNow, lastLine, lineCount, hingeOut, besideHinge>>

\* takeUntil(shutdown$): SIGINT or SIGTERM completes the stream and
\* unsubscribes the pipeline; the pending value is dropped
Shutdown ==
    /\ HingeRunning
    /\ hinge' = [hinge EXCEPT !.stopped = TRUE, !.timer = NoTimer,
                              !.hasValue = FALSE]
    /\ UNCHANGED <<hingeNow, lastLine, lineCount, hingeOut, besideHinge>>

HingeInit ==
    /\ SessionInit
    /\ PcmIdle
    /\ PlaybackIdle
    /\ FlowIdle
    /\ \E activeHigh \in BOOLEAN : HingeStart(activeHigh, TRUE)

HingeNext ==
    \/ GpiomonLine
    \/ HingeTick
    \/ DebounceFire
    \/ GpiomonClose
    \/ GpiomonError
    \/ Shutdown

HingeSpec == HingeInit /\ [][HingeNext]_vars

\* ------------------------------------------------------ runMinimalFlow
\* flow is the first call of runMinimalFlow(): pc names the operation it
\* awaits.  stopped, lateStart and event are kept for the properties: the
\* hinge was deactivated during the call; an interaction was started after
\* that; the last operation that returned, how, and what the flag was;
\* laterStopped: the hinge was deactivated since the latest call started;
\* written: writeFileSync has stored the story recording.
\* Later calls share the flag isWorkflowActive with it: each sets it when it
\* starts and clears it when it exits.

\* the operations of the conversation loop that the try of the loop covers
LoopOps ==
    {"listen", "playSilence", "llm", "playStory", "record", "playConfirm",
     "confirmListen", "playUnclearEmpty", "classify", "playComplete",
     "playContinue", "playUnclear", "speak"}

\* listen, LLM call and speak
Interactions == {"listen", "confirmListen", "llm", "classify", "speak", "speakError"}

\* the errors an awaited operation can throw, by what the handlers look for
\* in the message
ErrorKinds == {"interrupted", "shutdown", "503", "other"}

\* what an awaited operation can return; for the completion cue, followed
\* by writeFileSync without an await between them, whether the write throws
Returns(op) ==
    CASE op \in {"listen", "confirmListen"} -> {"text", "empty"}
      [] op = "llm" -> {"confirmed", "reply"}
      [] op = "classify" -> {"finished", "continue", "unclear"}
      [] op = "playComplete" -> {"ok", "writeFails"}
      [] OTHER -> {"ok"}

\* what an awaited operation can throw
Throws(op) == IF op = "delay" THEN {} ELSE ErrorKinds

\* await op
Await(r, op) ==
    [r EXCEPT !.flow.pc = op,
              !.flow.lateStart = @ \/ (r.flow.stopped /\ op \in Interactions)]

\* the finally block: closeSpeech() after a completed flow, then
\* setWorkflowActive(false)
Finish(r) ==
    IF r.flow.flowStatus = "completed"
    THEN Await(r, "closeSpeech")
    ELSE [r EXCEPT !.flow.pc = "done", !.active = FALSE]

\* while (isWorkflowRunning()) of the conversation loop, and its body up to
\* the listen
LoopHead(r) == IF r.active THEN Await(r, "listen") ELSE Finish(r)

\* outerStory: while (isWorkflowRunning()), up to the record
StoryHead(r) == IF r.active THEN Await(r, "record") ELSE Finish(r)

\* while (isWorkflowRunning()) of the confirmation loop, up to the listen
ConfirmHead(r) == IF r.active THEN Await(r, "confirmListen") ELSE StoryHead(r)

\* a catch that rethrows every error
CatchRethrowsAll(r, kind) ==
    Finish([r EXCEPT !.flow.flowStatus =
                IF kind = "interrupted" THEN "interrupted" ELSE "error"])

\* the catch of the conversation loop, and the outer catch for what it
\* rethrows
Catch(r, kind) ==
    CASE kind = "interrupted" ->
             Finish([r EXCEPT !.flow.flowStatus = "interrupted"])
      [] kind \in {"shutdown", "503"} -> Finish(r)
      [] OTHER -> IF r.active THEN Await(r, "speakError") ELSE LoopHead(r)

\* a flow that counts a story as completed before it is stored
StoreStoryCompletesFirst(r, outcome) ==
    IF outcome = "writeFails"
    THEN Catch([r EXCEPT !.flow.flowStatus = "completed"], "other")
    ELSE Finish([r EXCEPT !.flow.written = TRUE,
                          !.flow.flowStatus = "completed"])

\* after the completion cue: writeFileSync(recordingPath, finalWav), then
\* flowStatus = "completed" and break outerStory; a write that throws is
\* caught by the catch of the conversation loop
StoreStory(r, outcome) ==
    IF outcome = "writeFails" THEN Catch(r, "other")
    ELSE Finish([r EXCEPT !.flow.written = TRUE,
                          !.flow.flowStatus = "completed"])

\* the code after the listen with a counter that no input resets
AfterListenKeepsCount(r, outcome) ==
    IF ~r.active THEN Finish(r)
    ELSE IF outcome = "empty"
    THEN LET r1 == [r EXCEPT !.flow.consecutiveSilences = @ + 1]
         IN  IF r1.flow.consecutiveSilences >= 3
             THEN Finish([r1 EXCEPT !.flow.flowStatus = "interrupted"])
             ELSE Await(r1, "playSilence")
    ELSE Await(r, "llm")

\* the code after the listen of the conversation loop: the flag, the silence
\* counter, the LLM call
AfterListen(r, outcome) ==
    IF ~r.active THEN Finish(r)
    ELSE IF outcome = "empty"
    THEN LET r1 == [r EXCEPT !.flow.consecutiveSilences = @ + 1]
         IN  IF r1.flow.consecutiveSilences >= 3
             THEN Finish([r1 EXCEPT !.flow.flowStatus = "interrupted"])
             ELSE Await(r1, "playSilence")
    ELSE Await([r EXCEPT !.flow.consecutiveSilences = 0], "llm")

\* the awaited operation returns: the code up to the next await
Resume(r, outcome) ==
    LET f == r.flow
        pc == f.pc
    IN  CASE pc = "delay" -> Await(r, "welcome")
          [] pc = "welcome" -> LoopHead(r)
          [] pc = "listen" -> AfterListen(r, outcome)
          [] pc = "playSilence" -> LoopHead(r)
          [] pc = "llm" ->
                 IF ~r.active THEN Finish(r)
                 ELSE IF outcome = "confirmed" THEN Await(r, "playStory")
                 ELSE Await(r, "speak")
          [] pc = "playStory" -> StoryHead(r)
          [] pc = "record" -> Await(r, "playConfirm")
          [] pc = "playConfirm" ->
                 ConfirmHead([r EXCEPT !.flow.noResponseAttempts = 0])
          [] pc = "confirmListen" ->
                 IF outcome = "empty"
                 THEN LET r1 == [r EXCEPT !.flow.noResponseAttempts = @ + 1]
                      IN  IF r1.flow.noResponseAttempts >= 3
                          THEN Finish([r1 EXCEPT !.flow.flowStatus = "interrupted"])
                          ELSE Await(r1, "playUnclearEmpty")
                 ELSE Await(r, "classify")
          [] pc = "playUnclearEmpty" -> ConfirmHead(r)
          [] pc = "classify" ->
                 CASE outcome = "finished" -> Await(r, "playComplete")
                   [] outcome = "continue" -> Await(r, "playContinue")
                   [] OTHER -> Await(r, "playUnclear")
          [] pc = "playComplete" -> StoreStory(r, outcome)
          [] pc = "playContinue" ->
                 StoryHead([r EXCEPT !.flow.noResponseAttempts = 0])
          [] pc = "playUnclear" ->
                 LET r1 == [r EXCEPT !.flow.noResponseAttempts = @ + 1]
                 IN  IF r1.flow.noResponseAttempts >= 3
                     THEN Finish([r1 EXCEPT !.flow.flowStatus = "interrupted"])
                     ELSE ConfirmHead(r1)
          [] pc = "speak" -> LoopHead(r)
          [] pc = "speakError" -> LoopHead(r)
          [] OTHER -> [r EXCEPT !.flow.pc = "done", !.active = FALSE]

\* the awaited operation throws: the code up to the next await
Fail(r, kind) ==
    LET pc == r.flow.pc
    IN  CASE pc \in LoopOps -> Catch(r, kind)
          [] pc = "speakError" -> LoopHead(r)
          [] pc = "welcome" ->
                 Finish([r EXCEPT !.flow.flowStatus =
                            IF kind = "interrupted" THEN "interrupted"
                            ELSE "error"])
          [] OTHER -> [r EXCEPT !.flow.pc = "done", !.active = FALSE]

\* the variables outside the minimal flow
besideFlow == <<sessionVars, captureVars, pcmVars, playbackVars, hingeVars,
                cleanup>>

\* the flow goes on with what its operation gave
Continue(outcome) ==
    LET r0 == [flow |-> [flow EXCEPT
                            !.event = [op |-> flow.pc, outcome |-> outcome,
                                       active |-> isWorkflowActive]],
               active |-> isWorkflowActive]
        r == IF outcome \in ErrorKinds THEN Fail(r0, outcome)
             ELSE Resume(r0, outcome)
    IN  /\ flow' = r.flow
        /\ isWorkflowActive' = r.active
        /\ UNCHANGED <<hingeActive, laterFlows, besideFlow>>

FlowAwaits == flow.pc \notin {"idle", "done"}

\* the operation the flow awaits returns
OperationReturns ==
    /\ FlowAwaits
    /\ \E outcome \in Returns(flow.pc) : Continue(outcome)

\* the operation the flow awaits throws
OperationThrows ==
    /\ FlowAwaits
    /\ \E kind \in Throws(flow.pc) : Continue(kind)

\* the hinge switch delivers true: runMinimalFlow() is called and runs to its
\* first await
HingeActivate ==
    /\ ~hingeActive
    /\ hingeActive' = TRUE
    /\ isWorkflowActive' = TRUE
    /\ IF flow.pc = "idle"
       THEN /\ flow' = [flow EXCEPT !.pc = "delay"]
            /\ UNCHANGED laterFlows
       ELSE /\ laterFlows' = TRUE
            /\ flow' = [flow EXCEPT !.laterStopped = FALSE]
    /\ UNCHANGED besideFlow

\* the hinge switch delivers false: cleanupLangchain() stops the workflow
HingeDeactivate ==
    /\ hingeActive
    /\ hingeActive' = FALSE
    /\ isWorkflowActive' = FALSE
    /\ flow' = [flow EXCEPT !.stopped = @ \/ FlowAwaits,
                            !.laterStopped = laterFlows]
    /\ UNCHANGED <<laterFlows, besideFlow>>

\* the later calls of runMinimalFlow() have exited: the finally block of the
\* last one clears the flag
LaterFlowsExit ==
    /\ laterFlows
    /\ laterFlows' = FALSE
    /\ isWorkflowActive' = FALSE
    /\ flow' = [flow EXCEPT !.laterStopped = FALSE]
    /\ UNCHANGED <<hingeActive, besideFlow>>

FlowInit ==
    /\ SessionInit
    /\ PcmIdle
    /\ PlaybackIdle
    /\ HingeIdle
    /\ FlowIdle

FlowNext ==
    \/ HingeActivate
    \/ HingeDeactivate
    \/ OperationReturns
    \/ OperationThrows
    \/ LaterFlowsExit

FlowSpec == FlowInit /\ [][FlowNext]_vars

\* ---------------------------------------------------- cleanupLangchain
\* r is the module state of utils/cleanup.ts (r.c) and the workflow flag
\* (r.active) while code of cleanupLangchain() runs.

\* the catch of cleanupLangchain(): activity(...) and console.error(...),
\* which do not throw; the async function returns
Caught(r) ==
    [r EXCEPT !.c.pc = "returned", !.c.outcome = "resolved",
              !.c.failed = TRUE,
              !.c.atReturn = [active |-> r.active,
                              controller |-> r.c.activeAbortController,
                              operations |-> r.c.activeLangchainOperations]]

\* 1. if (isWorkflowRunning()) stopWorkflow()
StopStep(r) ==
    IF r.active
    THEN [r EXCEPT !.active = FALSE, !.c.log = Append(@, "stopWorkflow")]
    ELSE r

\* 2. if (activeAbortController) { abort(); activeAbortController = null }
AbortStep(r) ==
    IF r.c.activeAbortController # 0
    THEN [r EXCEPT !.c.aborted = @ \cup {r.c.activeAbortController},
                   !.c.activeAbortController = 0,
                   !.c.log = Append(@, "abort")]
    ELSE r

\* 3. if (activeLangchainOperations.size > 0) await Promise.race(...);
\* otherwise 4. await cleanupLangchainResources(), which awaits nothing that
\* is pending, and 5. await cleanupSpeech(), which awaits the HTTP close
WaitStep(r) ==
    IF r.c.activeLangchainOperations # {}
    THEN [r EXCEPT !.c.pc = "waiting", !.c.log = Append(@, "wait")]
    ELSE [r EXCEPT !.c.pc = "speech"]

\* the steps a call can fail in
SyncSteps == {"stopWorkflow", "abort", "wait"}

\* cleanupLangchain() up to its first await; failAt is the step that throws
CleanupBody(r, failAt) ==
    IF failAt = "stopWorkflow" THEN Caught(r)
    ELSE LET r1 == StopStep(r) IN
         IF failAt = "abort" THEN Caught(r1)
         ELSE LET r2 == AbortStep(r1) IN
              IF failAt = "wait" THEN Caught(r2)
              ELSE WaitStep(r2)

\* the awaited step is over: the code up to the next await that waits for
\* something, or to the return after 6. saveLogs(), which awaits nothing
\* that is pending either
CleanupResume(r, fails) ==
    IF fails THEN Caught(r)
    ELSE CASE r.c.pc = "waiting" ->
                  [r EXCEPT !.c.activeLangchainOperations = {},
                            !.c.log = Append(@, "clear"),
                            !.c.pc = "speech"]
           [] OTHER ->
                  [r EXCEPT !.c.pc = "returned", !.c.outcome = "resolved",
                            !.c.atReturn =
                                [active |-> r.active,
                                 controller |-> r.c.activeAbortController,
                                 operations |-> r.c.activeLangchainOperations]]

\* the variables outside utils/cleanup.ts and the flag
besideCleanup ==
    <<sessionVars, captureVars, pcmVars, playbackVars, hingeVars,
      hingeActive, flow, laterFlows>>

CleanupInstall(r) ==
    /\ cleanup' = r.c
    /\ isWorkflowActive' = r.active
    /\ UNCHANGED besideCleanup

\* cleanupLangchain() is called and runs to its first await
CleanupLangchain ==
    /\ cleanup.pc \in {"idle", "returned"}
    /\ \E failAt \in SyncSteps \cup {"none"} :
          CleanupInstall(
              CleanupBody([c |-> [cleanup EXCEPT !.pc = "running",
                                                 !.outcome = "none",
                                                 !.failed = FALSE,
                                                 !.log = <<>>],
                           active |-> isWorkflowActive],
                          failAt))

\* the step cleanupLangchain() awaits is over, by returning or by throwing;
\* the wait for the operations is over when they have settled or after 5 s
CleanupStepDone ==
    /\ cleanup.pc \in {"waiting", "speech"}
    /\ \E fails \in BOOLEAN :
          CleanupInstall(
              CleanupResume([c |-> cleanup, active |-> isWorkflowActive],
                            fails))

\* createAbortController(), called by an agent before its LLM call
CreateAbortController ==
    /\ cleanup.created < MaxControllers
    /\ cleanup' =
          [cleanup EXCEPT
              !.aborted = IF cleanup.activeAbortController # 0
                          THEN @ \cup {cleanup.activeAbortController}
                          ELSE @,
              !.created = @ + 1,
              !.activeAbortController = cleanup.created + 1]
    /\ UNCHANGED <<isWorkflowActive, besideCleanup>>

\* registerLangchainOperation(operation)
RegisterLangchainOperation ==
    /\ cleanup.registered < MaxOperations
    /\ cleanup' =
          [cleanup EXCEPT
              !.registered = @ + 1,
              !.activeLangchainOperations = @ \cup {cleanup.registered + 1},
              !.pending = @ \cup {cleanup.registered + 1}]
    /\ UNCHANGED <<isWorkflowActive, besideCleanup>>

\* a registered operation settles: operation.finally(() => delete)
OperationSettles ==
    /\ \E o \in cleanup.pending :
          cleanup' = [cleanup EXCEPT !.pending = @ \ {o},
                                     !.activeLangchainOperations = @ \ {o}]
    /\ UNCHANGED <<isWorkflowActive, besideCleanup>>

\* setWorkflowActive(true), the first statement of a flow that starts
SetWorkflowActive ==
    /\ ~isWorkflowActive
    /\ isWorkflowActive' = TRUE
    /\ UNCHANGED <<cleanup, besideCleanup>>

CleanupInit ==
    /\ SessionInit
    /\ PcmIdle
    /\ LaterIdle

CleanupNext ==
    \/ CleanupLangchain
    \/ CleanupStepDone
    \/ CreateAbortController
    \/ RegisterLangchainOperation
    \/ OperationSettles
    \/ SetWorkflowActive

CleanupSpec == CleanupInit /\ [][CleanupNext]_vars

\* ------------------------------------------- the framer under any chunking
\* the "data" handler fed chunks of sizes that do not align with the frames
FramerPush ==
    /\ "stdout.data" \in arecordProcess.listeners
    /\ ~arecordProcess.stdoutEnded
    /\ received < MaxPushes
    /\ \E size \in FramerChunkSizes :
       \E cls \in [1..FramesAfter(size) -> BOOLEAN] : DataHandler(size, cls)

FramerNext ==
    \/ Subscribe
    \/ FramerPush

FramerSpec == Init /\ [][FramerNext]_vars

TypeOK ==
    /\ now \in 0..MaxTime + TickMs
    /\ isCompleted \in BOOLEAN
    /\ subscriber \in {"none", "open", "completed", "unsubscribed"}
    /\ decision \in {"none", "initial-silence", "trailing-silence"}
    /\ BufLen(audioBuffer) >= 0

\* ------------------------------------------------------------ properties
\* the position of the first call op in the log, 0 when it was never made
Pos(op) ==
    IF \E i \in 1..Len(log) : log[i] = op
    THEN CHOOSE i \in 1..Len(log) : log[i] = op /\ \A j \in 1..(i - 1) : log[j] # op
    ELSE 0

Count(op) == Cardinality({i \in 1..Len(log) : log[i] = op})

\* the session was not ended by the process or by the caller
NotAborted == subscriber # "none" /\ cause \in {"none", "end$"}

\* C1: the end-of-utterance decision fires at most once in a session, and
\* once it has fired no later event fires it again, completes the subscriber
\* again, makes another call on the subscriber or the process, classifies a
\* frame or changes the state of the endpoint pipeline.
C1_DecisionAtMostOnce ==
    [][ /\ decisionCount' <= 1
        /\ decision # "none" =>
              /\ decision' = decision
              /\ decidedAt' = decidedAt
              /\ decisionCount' = decisionCount
              /\ isCompleted /\ isCompleted'
              /\ endSub' = endSub
              /\ framesSubject' = framesSubject
              /\ subscriber' = subscriber
              /\ vadCalls' = vadCalls
              /\ log' = log ]_vars

\* C1 witness: after the decision a late chunk and the exit and stdout end of
\* the process were handled
C1_Witness ==
    /\ decision # "none"
    /\ cause = "end$"
    /\ received > Len(forwarded)
    /\ arecordProcess.exited
    /\ arecordProcess.stdoutEnded

\* C2: once a frame has been classified as speech, a session that is not
\* aborted completes by trailing silence maxTrailingSilenceMs after the last
\* speech frame: until then it is undecided and time has not passed that
\* instant, afterwards the decision is trailing silence taken at that instant.
C2_TrailingAfterAnySpeech ==
    (NotAborted /\ speechFrames >= 1) =>
        IF decision = "none"
        THEN now <= lastSpeechAt + config.maxTrailingSilenceMs
        ELSE /\ decision = "trailing-silence"
             /\ decidedAt = lastSpeechAt + config.maxTrailingSilenceMs

\* C3: a trailing-silence decision is never taken earlier than
\* maxTrailingSilenceMs after the latest speech frame, and a pending
\* trailing-silence deadline is always counted from the latest speech frame.
C3_TrailingCountedFromLatestSpeech ==
    /\ decision = "trailing-silence" =>
          /\ speechFrames >= 1
          /\ decidedAt >= lastSpeechAt + config.maxTrailingSilenceMs
    /\ endSub.debounceTimer # NoTimer =>
          endSub.debounceTimer = lastSpeechAt + config.maxTrailingSilenceMs

\* C3 witness: trailing silence decided after the deadline had been moved by a
\* later speech frame
C3_Witness ==
    /\ decision = "trailing-silence"
    /\ debounceRestarted
    /\ speechFrames >= 3

\* C4: with no frame classified as speech, a session that is not aborted has
\* the initial-silence timer pending at maxInitialSilenceMs after the
\* subscription (which is at time 0) until it decides, and its decision is
\* initial silence, taken when that timer is due, once.
C4_InitialSilence ==
    (NotAborted /\ speechFrames = 0) =>
        IF decision = "none"
        THEN /\ endSub.initialTimer = config.maxInitialSilenceMs
             /\ now <= config.maxInitialSilenceMs
        ELSE /\ decision = "initial-silence"
             /\ decidedAt = config.maxInitialSilenceMs
             /\ decisionCount = 1

\* C4 witness: only silence frames were classified and initial silence decided
C4_Witness ==
    /\ decision = "initial-silence"
    /\ speechFrames = 0
    /\ vadCalls >= 2
    /\ received >= 2

\* C5: after the first speech frame, a chunk whose frames are classified while
\* the session is undecided leaves it undecided; if one of its frames is
\* speech the trailing-silence deadline becomes maxTrailingSilenceMs from now,
\* which is in the future, and otherwise the timer is unchanged; trailing
\* silence is not decided less than maxTrailingSilenceMs after a speech frame.
C5_SpeechRestartsTrailingTimer ==
    [][ /\ (speechFrames >= 1 /\ ~endSub.closed /\ vadCalls' > vadCalls) =>
              /\ decision' = decision
              /\ ~isCompleted'
              /\ IF speechFrames' > speechFrames
                 THEN /\ endSub'.debounceTimer = now + config.maxTrailingSilenceMs
                      /\ endSub'.debounceTimer > now'
                 ELSE endSub'.debounceTimer = endSub.debounceTimer
        /\ (decision = "none" /\ decision' = "trailing-silence") =>
              now >= lastSpeechAt + config.maxTrailingSilenceMs ]_vars

\* C5 witness: the session is still undecided after three speech frames of
\* which a later one moved the pending deadline
C5_Witness ==
    /\ debounceRestarted
    /\ decision = "none"
    /\ ~isCompleted
    /\ speechFrames >= 3
    /\ vadCalls > speechFrames + 1

\* C6: the first frame classified as speech cancels the initial-silence
\* timer, and a session in which a frame was classified as speech is never
\* decided by initial silence.
C6_SpeechCancelsInitialTimer ==
    /\ speechFrames >= 1 => endSub.initialTimer = NoTimer
    /\ decision = "initial-silence" => speechFrames = 0

\* C6 witness: speech was classified and the session is still running after
\* maxInitialSilenceMs
C6_Witness ==
    /\ speechFrames >= 1
    /\ now > config.maxInitialSilenceMs
    /\ decision = "none"
    /\ ~isCompleted

\* C7: a session whose cleanup was caused by the process (its error, its exit
\* or the end of its stdout) does not complete the subscriber normally.
C7_ProcessFailureIsAnError ==
    cause \in {"error", "exit", "stdout.end"} => subscriber # "completed"

\* C8: whatever termination triggers occur, the cleanup body runs at most
\* once: isCompleted is set once, kill and removeAllListeners are called at
\* most once, the subscriber is completed at most once, nothing is raised.
C8_CleanupAtMostOnce ==
    /\ Count("isCompleted") <= 1
    /\ Count("kill") <= 1
    /\ arecordProcess.killCalls <= 1
    /\ Count("removeAllListeners") <= 1
    /\ Count("complete") <= 1
    /\ ~raised

\* C8 witness: at least three different triggers occurred in one session
C8_Witness ==
    /\ Cardinality(triggers) >= 3
    /\ arecordProcess.killCalls = 1
    /\ Count("complete") = 1

\* C9: after the endpoint decision no chunk is passed to subscriber.next: in
\* the log of a decided session no next follows the setting of isCompleted.
C9_NoForwardAfterDecision ==
    decision # "none" =>
        \A i \in 1..Len(log) : log[i] = "next" => i < Pos("isCompleted")

\* C9 witness: a chunk arrived after the decision
C9_Witness ==
    /\ decision # "none"
    /\ cause = "end$"
    /\ Len(forwarded) >= 1
    /\ received > Len(forwarded)

\* C10 as stated: at the decision the session stops forwarding, then
\* completes the subscriber, then stops the process.
C10_CompleteBeforeKill ==
    decision # "none" =>
        /\ 0 < Pos("isCompleted")
        /\ Pos("isCompleted") < Pos("complete")
        /\ Pos("complete") < Pos("kill")

\* C10 amended: at the decision the session stops forwarding, then stops the
\* process (kill, removeAllListeners), then completes the subscriber.
C10_KillBeforeComplete ==
    decision # "none" =>
        /\ 0 < Pos("isCompleted")
        /\ Pos("isCompleted") < Pos("kill")
        /\ Pos("kill") < Pos("removeAllListeners")
        /\ Pos("removeAllListeners") < Pos("complete")

\* C10 witness: a decision after chunks had been forwarded
C10_Witness ==
    /\ decision # "none"
    /\ Len(forwarded) >= 2
    /\ subscriber = "completed"

\* C11: an unsubscribe of a session that is still open (so before any
\* decision) closes the end$ subscription with both timers cancelled, calls
\* kill once, sets isCompleted and raises nothing whatever kill does; an
\* unsubscribe of a session that has already terminated changes nothing; and
\* after an unsubscribe no decision is taken.
C11_UnsubscribeCancels ==
    [][ /\ ("unsubscribe" \in triggers' /\ "unsubscribe" \notin triggers) =>
              IF subscriber = "open"
              THEN /\ decision = "none" /\ decision' = "none"
                   /\ endSub'.closed
                   /\ endSub'.initialTimer = NoTimer
                   /\ endSub'.debounceTimer = NoTimer
                   /\ framesSubject'.observers = <<>>
                   /\ isCompleted'
                   /\ arecordProcess'.killCalls = 1
                   /\ ~raised'
              ELSE /\ Session' = Session
                   /\ decision' = decision
        /\ "unsubscribe" \in triggers =>
              /\ decision' = decision
              /\ decisionCount' = decisionCount
              /\ ~raised' ]_vars

\* C11 witness: the caller unsubscribed while the trailing-silence timer was
\* pending, and unsubscribed
C11_Witness ==
    /\ cause = "unsubscribe"
    /\ subscriber = "unsubscribed"
    /\ speechFrames >= 2
    /\ decision = "none"
    /\ arecordProcess.killCalls = 1

\* C12: the chunks passed to subscriber.next are the chunks received, each
\* once and in the order of their arrival (chunk i is the i-th forwarded),
\* and as long as the session has not terminated every chunk received has
\* been forwarded.
C12_ForwardedInOrder ==
    /\ \A i \in 1..Len(forwarded) : forwarded[i] = i
    /\ Len(forwarded) <= received
    /\ Count("next") = Len(forwarded)
    /\ ~isCompleted => Len(forwarded) = received

\* C12 witness: two chunks were forwarded before trailing silence was decided
C12_Witness ==
    /\ forwarded = <<1, 2>>
    /\ decision = "trailing-silence"

\* ---------------------------------------------------------------- C13
RECURSIVE ConcatAll(_)
ConcatAll(bufs) ==
    IF bufs = <<>> THEN <<>> ELSE Join(bufs[1], ConcatAll(Tail(bufs)))

\* the concatenation of all chunks pushed so far
Pushed == IF pushedBytes = 0 THEN <<>> ELSE <<[lo |-> 0, hi |-> pushedBytes]>>

\* C13: after every push, the frames emitted so far followed by the retained
\* remainder are exactly the bytes of the chunks pushed so far, in order
C13_FramerConservesBytes ==
    Join(ConcatAll(frames), audioBuffer) = Pushed

C13_Witness ==
    /\ received = 3
    /\ Len(frames) >= 3
    /\ BufLen(audioBuffer) = 2

\* ---------------------------------------------------------------- C14
\* the framer of a fresh session given all the bytes as one chunk
OneChunk ==
    EmitVadFrames([Session EXCEPT !.audioBuffer = <<>>,
                                  !.frames = <<>>,
                                  !.framesSubject.observers = <<>>],
                  Pushed,
                  [k \in 1..(pushedBytes \div VAD_FRAME_BYTES) |-> FALSE])

\* C14: however the bytes were split into chunks, the frames emitted and the
\* remainder are those obtained by pushing the same bytes as a single chunk
C14_SplitIndependent ==
    /\ frames = OneChunk.frames
    /\ audioBuffer = OneChunk.audioBuffer

\* three chunks of 641 bytes in all: the one frame spans a chunk boundary
C14_Witness ==
    /\ received = 3
    /\ pushedBytes = 641
    /\ Len(frames) = 1
    /\ BufLen(audioBuffer) = 1

\* ---------------------------------------------------------------- C15
\* C15: every frame handed to onFrame, and so every frame classified, is
\* exactly VAD_FRAME_BYTES long, and after each push the remainder is shorter
\* than one frame
C15_WholeFramesOnly ==
    /\ \A k \in 1..Len(frames) : BufLen(frames[k]) = VAD_FRAME_BYTES
    /\ \A k \in 1..Len(classified) : BufLen(classified[k]) = VAD_FRAME_BYTES
    /\ BufLen(audioBuffer) < VAD_FRAME_BYTES

C15_Witness ==
    /\ Len(classified) >= 2
    /\ BufLen(audioBuffer) = 639

\* ---------------------------------------------------------------- C16
\* how many times vad.process was given the frame
Times(frame) ==
    Cardinality({i \in 1..Len(classified) : classified[i] = frame})

\* C16: frames are classified in stream order, each with the subscriptions
\* left by the frames before it: the classifications never go back in the
\* stream, only emitted frames are classified, and a later frame is never
\* classified more often than an earlier one
C16_ClassifiedInStreamOrder ==
    /\ \A i, j \in 1..Len(classified) :
          i < j => classified[i][1].lo <= classified[j][1].lo
    /\ \A i \in 1..Len(classified) :
          \E k \in 1..Len(frames) : frames[k] = classified[i]
    /\ \A i, j \in 1..Len(frames) :
          i < j => Times(frames[j]) <= Times(frames[i]) /\ Times(frames[i]) <= 2

\* a chunk of several frames whose first speech frame is not its last frame
C16_Witness ==
    /\ received = 1
    /\ Len(frames) = 3
    /\ Times(frames[1]) = 2
    /\ Times(frames[3]) = 1
    /\ endSub.debounceTimer # NoTimer

\* ---------------------------------------------------------------- C17
\* C17: the promise of listen() is settled at most once, and exactly when the
\* stream has emitted a terminal event: the first 'error' or 'end' decides
\* between reject and resolve, the later ones settle nothing
C17_SettlesOnce ==
    /\ Len(settled) <= 1
    /\ isResolved <=> settled # <<>>
    /\ settled # <<>> <=> streamEvents # <<>>
    /\ settled # <<>> =>
          settled[1] = IF streamEvents[1] = "error" THEN "reject" ELSE "resolve"

C17_Witness ==
    /\ Len(streamEvents) >= 2
    /\ streamEvents[1] = "end"
    /\ streamEvents[2] = "error"
    /\ settled = <<"resolve">>

C19_StereoDuplicates ==
    (stereoBuffer # Unwritten /\ Len(monoBuffer) % 2 = 0) =>
        /\ ~stereoBuffer.thrown
        /\ Len(stereoBuffer.bytes) = 2 * Len(monoBuffer)
        /\ \A k \in 0..(Len(monoBuffer) \div 2 - 1) : \A b \in 1..2 :
              /\ stereoBuffer.bytes[4 * k + b] = monoBuffer[2 * k + b]
              /\ stereoBuffer.bytes[4 * k + 2 + b] = monoBuffer[2 * k + b]

\* two different samples, one of them negative, into memory of other content
C19_Witness ==
    /\ stereoBuffer # Unwritten
    /\ writer = "SpeakerStream" /\ allocated = 255
    /\ monoBuffer = <<1, 128, 255, 0>>
    /\ stereoBuffer.bytes = <<1, 128, 1, 128, 255, 0, 255, 0>>

\* ---------------------------------------------------------------- C20
\* both channels of every frame carry the same sample
DualMono(stereo) == ToMono(stereo, 0) = ToMono(stereo, 1)

\* C20 as stated: converting one channel of any stereo buffer back to stereo
\* gives the buffer again
C20_RoundTripAnyStereo ==
    (original # <<>> /\ stereoBuffer # Unwritten) =>
        /\ ~stereoBuffer.thrown
        /\ stereoBuffer.bytes = original

\* C20: converting one channel of a stereo buffer back to stereo gives the
\* buffer again exactly when its two channels carry the same samples; in
\* every case both channels of the result are the channel selected
C20_RoundTripDualMono ==
    (original # <<>> /\ stereoBuffer # Unwritten) =>
        /\ ~stereoBuffer.thrown
        /\ ToMono(stereoBuffer.bytes, 0) = monoBuffer
        /\ ToMono(stereoBuffer.bytes, 1) = monoBuffer
        /\ stereoBuffer.bytes = original <=> DualMono(original)

C20_Witness ==
    /\ original = <<0, 255, 0, 255, 255, 0, 255, 0>>
    /\ stereoBuffer # Unwritten
    /\ stereoBuffer.bytes = original

\* ------------------------------------------------- the playback writer
OddCalls == {i \in DOMAIN writeCalls : writeCalls[i].length % 2 = 1}

\* C21: a write of a mono buffer of odd length is rejected with an error
\* before write() returns, and no byte of it reaches the playback process.
C21_OddRejectedSynchronously ==
    \A i \in OddCalls :
        /\ writeCalls[i].answer \in {"threw", "error"}
        /\ \A j \in DOMAIN aplayProcess.stdinWrites :
               aplayProcess.stdinWrites[j] # i

\* C21: an odd-length buffer written behind an unfinished write was accepted
\* without an error; the conversion throws later, inside the callback of the
\* stdin write, where nothing catches it.
C21_OddQueuedEscapes ==
    \E i \in OddCalls :
        /\ writeCalls[i].queued
        /\ writeCalls[i].result \in {"true", "false"}
        /\ writeCalls[i].answer = "threw"
        /\ escaped

\* C22: at most one write to the standard input of the playback process is
\* in flight, and a stdin write is issued only after the callback of every
\* earlier one was called.
C22_OneWriteInFlight ==
    /\ Len(aplayProcess.inflight) <= 1
    /\ aplayProcess.maxInflight <= 1
    /\ \A j \in DOMAIN aplayProcess.stdinWrites :
           j < Len(aplayProcess.stdinWrites) =>
               writeCalls[aplayProcess.stdinWrites[j]].answer # "pending"

\* C22: a buffer written behind an unfinished write reached stdin
C22_Witness ==
    \E j \in DOMAIN aplayProcess.stdinWrites :
        /\ j > 1
        /\ writeCalls[aplayProcess.stdinWrites[j]].queued
        /\ aplayProcess.inflight = <<aplayProcess.stdinWrites[j]>>

\* ------------------------------------------------------------- speak()
\* the step made a write() call
WroteChunk == Len(writeCalls') = Len(writeCalls) + 1

\* the step emitted this event on the playback writer
WriterEmitted(event) ==
    \E j \in (Len(emitted) + 1)..Len(emitted') : emitted'[j] = event

\* C23: when write() returns false speak() pauses the synthesizer stream;
\* a paused stream is resumed only by a step in which 'drain' fires, and no
\* chunk is written while the drain is awaited.
C23_PauseUntilDrain ==
    [][ /\ (WroteChunk /\ writeCalls'[Len(writeCalls')].result = "false")
            => (~ttsStream'.flowing /\ audioStream'.drainOnce > 0)
        /\ WroteChunk
            => (ttsStream.flowing /\ ~writeCalls'[Len(writeCalls')].awaiting)
        /\ (~ttsStream.flowing /\ ttsStream'.flowing) => WriterEmitted("drain")
      ]_vars

\* C23: a write returned false, 'drain' fired, and a later chunk was written
C23_Witness ==
    /\ speaking
    /\ \E i \in DOMAIN writeCalls :
           /\ writeCalls[i].result = "false"
           /\ i < Len(writeCalls)
    /\ \E j \in DOMAIN emitted : emitted[j] = "drain"

\* the step made an end() call
CalledEnd == audioStream'.endCalls = audioStream.endCalls + 1

\* C24: end() is idempotent: stdin of the playback process is closed at most
\* once, SpeakerStream ends it at most once, no end() call raises or emits an
\* error, and an end() after the first changes nothing at the process.
C24_EndIdempotent ==
    [][ /\ aplayProcess'.stdinCloses <= 1
        /\ audioStream'.class = "SpeakerStream"
            => aplayProcess'.stdinEndCalls <= 1
        /\ CalledEnd =>
            /\ escaped' = escaped
            /\ ~WriterEmitted("error")
            /\ audioStream.endCalls >= 1 =>
                /\ aplayProcess'.stdinCloses = aplayProcess.stdinCloses
                /\ aplayProcess'.stdinWrites = aplayProcess.stdinWrites
                /\ aplayProcess'.inflight = aplayProcess.inflight
      ]_vars

\* C24: end() was called twice on a writer whose stdin was closed by the
\* first call
C24_Witness ==
    /\ audioStream.endCalls >= 2
    /\ aplayProcess.stdinCloses = 1

\* C24: end() was called after the process had exited
C24_WitnessExited ==
    /\ audioStream.endCalls >= 1
    /\ aplayProcess.exited
    /\ aplayProcess.stdinCloses = 0

\* the write calls whose buffer was handed to stdin of the playback process
Transferred == {aplayProcess.stdinWrites[j] : j \in DOMAIN aplayProcess.stdinWrites}

\* C25: a write made once the closed flag of the writer is set transfers no
\* byte to stdin of the playback process and is answered with an error.
C25_ClosedRefusesWrites ==
    \A i \in DOMAIN writeCalls :
        writeCalls[i].closed =>
            /\ i \notin Transferred
            /\ writeCalls[i].answer = "error"

\* C25: after an odd-length write threw inside _write the Writable still
\* counts that write as pending; a write made after the process exited is
\* queued behind it and is never answered.
C25_ClosedWriteUnanswered ==
    \E i \in DOMAIN writeCalls :
        /\ writeCalls[i].closed
        /\ writeCalls[i].queued
        /\ writeCalls[i].answer = "pending"
        /\ writeCalls[i].result = "true"
        /\ aplayProcess.exited
        /\ aplayProcess.inflight = <<>>

\* ------------------------------------------------------------- speak()
\* the promise of speak() takes the first resolve or reject call
Settled == settleCalls # <<>>

\* C26: speak() resolves only after the playback process has exited.
C26_ResolvesAfterExit ==
    (Settled /\ settleCalls[1].call = "resolve") => settleCalls[1].exited

\* C26: the synthesizer stream ended, every chunk was handed to stdin, the
\* Writable finished and emitted 'close' by itself: speak() resolved while
\* the playback process is still running.
C26_ResolvedWhilePlaying ==
    /\ Settled
    /\ settleCalls[1] = [call |-> "resolve", exited |-> FALSE]
    /\ aplayProcess.stdinWrites # <<>>
    /\ audioStream.finished
    /\ ~aplayProcess.exited

\* ------------------------------------------------- the playback writer
\* C30: every buffer passed to write() before end() is written to stdin of
\* the playback process, also when it was queued behind an unfinished write
\* at the time of end(), and end() with queued buffers produces no error
\* (while the process runs and every buffer has an even length).
C30_QueuedWrittenBeforeClose ==
    ( /\ audioStream.endCalls >= 1
      /\ ~aplayProcess.exited
      /\ ~aplayProcess.errored
      /\ OddCalls = {} )
    => /\ \A i \in DOMAIN writeCalls :
              ~writeCalls[i].ended => writeCalls[i].answer # "error"
       /\ \A j \in DOMAIN emitted : emitted[j] # "error"
       /\ ~escaped

\* C30: a buffer that was queued when end() was called never reached stdin:
\* its write was answered with an error and the writer emitted 'error'.
C30_QueuedLostAtEnd ==
    \E i \in DOMAIN writeCalls :
        /\ writeCalls[i].queued
        /\ ~writeCalls[i].ended
        /\ writeCalls[i].result = "true"
        /\ writeCalls[i].answer = "error"
        /\ i \notin Transferred
        /\ OddCalls = {}
        /\ ~aplayProcess.exited
        /\ ~aplayProcess.errored
        /\ \E j \in DOMAIN emitted : emitted[j] = "error"

\* -------------------------------------------------------- hingeSwitch$
\* what hingeSwitch$ emits is the pressed state of the last edge line, and
\* two consecutive emitted values differ
EmitsLastEdge(i) ==
    /\ IsEdge(hingeOut[i].line.e)
    /\ hingeOut[i].value = Pressed(hingeOut[i].line.e, hinge.activeHigh)
    /\ i > 1 => hingeOut[i].value # hingeOut[i - 1].value

\* C27: each value hingeSwitch$ emits is the pressed state of the last edge
\* event, emitted once debounceMs have passed after it without a further
\* event, and two consecutive emitted values are never equal.
C27_EmitsAfterQuiet ==
    \A i \in DOMAIN hingeOut :
        /\ EmitsLastEdge(i)
        /\ hingeOut[i].at >= hingeOut[i].line.at + DebounceMs

\* C27: each value hingeSwitch$ emits is the pressed state of the last edge
\* event, emitted once debounceMs have passed after it without a further
\* event, or at once when gpiomon closes while that edge is pending, and two
\* consecutive emitted values are never equal.
C27_EmitsAfterQuietOrClose ==
    \A i \in DOMAIN hingeOut :
        /\ EmitsLastEdge(i)
        /\ \/ hingeOut[i].at >= hingeOut[i].line.at + DebounceMs
           \/ /\ hingeOut[i].flushed
              /\ i = Len(hingeOut)
              /\ hinge.stopped

\* C27: two values were emitted, the later one after a burst of edges
C27_Witness ==
    /\ Len(hingeOut) >= 2
    /\ lineCount >= 3
    /\ ~hingeOut[Len(hingeOut)].flushed

\* ------------------------------------------------------ runMinimalFlow
\* C28: once the hinge was deactivated while the minimal flow was running,
\* the flow starts no further listen, LLM call or speak after the operation
\* it was awaiting has returned.
C28_StopsAfterDeactivation == ~flow.lateStart

\* C28: the hinge was deactivated while the flow awaited the listen for the
\* story confirmation, it was not activated again, and the flow started the
\* classifier call when the listen returned.
C28_ClassifiesAfterDeactivation ==
    /\ ~laterFlows
    /\ ~hingeActive
    /\ ~isWorkflowActive
    /\ flow.stopped
    /\ flow.pc = "classify"
    /\ flow.event.op = "confirmListen"
    /\ ~flow.event.active

\* C28: the hinge was deactivated and activated again while the flow awaited
\* a listen; the flow found the flag set and went on to the LLM call.
C28_GoesOnAfterReactivation ==
    /\ laterFlows
    /\ flow.stopped
    /\ flow.pc = "llm"
    /\ flow.event.op = "listen"
    /\ flow.event.active

\* the flow is where the last return of an operation left it, so the state
\* shows what the flow did with that return
FailedInteraction ==
    /\ flow.event.op \in Interactions \ {"speakError"}
    /\ flow.event.outcome \in ErrorKinds
    /\ flow.event.active

C29_WitnessNextTurn ==
    /\ flow.event = [op |-> "speakError", outcome |-> "other", active |-> TRUE]
    /\ flow.pc = "listen"

\* ---------------------------------------------------------------- C31
\* C31: a frame that the framer produced before the endpoint decision and
\* that reached the pipeline is passed to vad.process exactly once.
C31_ClassifiedOnce ==
    \A i \in 1..Len(classified) : Times(classified[i]) = 1

\* C31: before the first speech frame both takeUntil(firstSpeech$) and
\* switchMap are subscribed to speech$, and each subscription runs its own
\* map: a silence frame was passed to vad.process twice, no decision yet.
C31_ClassifiedTwice ==
    /\ decision = "none"
    /\ speechFrames = 0
    /\ subscriber = "open"
    /\ frames # <<>>
    /\ \A k \in 1..Len(frames) : Times(frames[k]) = 2

\* ---------------------------------------------------------------- C32
\* the calls the step added to the log
NewCalls == SubSeq(log', Len(log) + 1, Len(log'))

\* C32: a chunk received before the endpoint decision is forwarded to the
\* subscriber before any frame cut on its arrival is classified.
C32_ForwardedBeforeClassified ==
    [][ ( /\ received' = received + 1
          /\ ~isCompleted
          /\ \E i \in 1..Len(NewCalls) : NewCalls[i] = "vad.process" )
        => NewCalls[1] = "next" ]_vars

\* C32: a chunk was forwarded and its frames were classified after that
C32_Witness ==
    /\ decision = "none"
    /\ received >= 1
    /\ \E i \in 1..(Len(log) - 1) :
           /\ log[i] = "next"
           /\ log[i + 1] = "vad.process"

\* ---------------------------------------------------------------- C33
\* the step forwarded a chunk to the subscriber
Forwarded == Len(forwarded') = Len(forwarded) + 1

\* the step received a chunk from arecord
Received == received' = received + 1

\* C33: listen() is called at time 0.  A chunk that arrives before ignoreMs
\* have passed is not written to the recognizer stream, but it is framed,
\* and classified while end$ is subscribed; the initial-silence timer is
\* armed for maxInitialSilenceMs from the start of the capture, not from the
\* end of the ignore window; a chunk forwarded after the ignore window is
\* written, and the audio writes are in the order of arrival.
C33_IgnoreWindow ==
    [][ /\ (Forwarded /\ now < IgnoreMs) => stream'.writes = stream.writes
        /\ (Forwarded /\ now > IgnoreMs) =>
               stream'.writes = Append(stream.writes, forwarded'[Len(forwarded')])
        /\ (Received /\ listening) =>
               /\ Len(frames') - Len(frames) =
                      (BufLen(audioBuffer) + pushedBytes' - pushedBytes)
                          \div VAD_FRAME_BYTES
               /\ (Len(frames') > Len(frames) /\ ~endSub.closed) =>
                      vadCalls' > vadCalls
        /\ (~listening /\ listening') =>
               /\ endSub'.initialTimer = now + config.maxInitialSilenceMs
               /\ ignoreTimer' = now + IgnoreMs
        /\ \A i, j \in 2..Len(stream'.writes) :
               i < j => stream'.writes[i] < stream'.writes[j]
      ]_vars

\* C33: the first chunk arrived in the ignore window and was classified but
\* not written, the second arrived after it and was written
C33_Witness ==
    /\ listening
    /\ forwarded = <<1, 2>>
    /\ stream.writes = <<"config", 2>>
    /\ Times(frames[1]) >= 1

\* ---------------------------------------------------------------- C34
\* C34: the first write on the recognizer stream is the streaming
\* configuration and every later write is an audio chunk; stream.end() is
\* called in the step that completes the microphone and in no other step, so
\* at most once; no step writes after stream.end() was called or after the
\* stream emitted "end" or "error".
C34_ConfigChunksEnd ==
    [][ /\ stream'.writes # stream.writes =>
               /\ stream.endCalls = 0
               /\ streamEvents = <<>>
               /\ IF stream.writes = <<>>
                  THEN stream'.writes = <<"config">>
                  ELSE /\ stream.writes[1] = "config"
                       /\ Len(stream'.writes) = Len(stream.writes) + 1
                       /\ SubSeq(stream'.writes, 1, Len(stream.writes)) =
                              stream.writes
                       /\ stream'.writes[Len(stream'.writes)] \in Nat
        /\ stream'.endCalls # stream.endCalls =>
               /\ stream.endCalls = 0
               /\ stream'.endCalls = 1
        /\ (subscriber = "open" /\ subscriber' = "completed" /\ listening)
               <=> stream'.endCalls # stream.endCalls
      ]_vars

\* C34: the configuration and a chunk were written, the microphone
\* completed, the stream was ended once and has emitted "end"
C34_Witness ==
    /\ stream.writes = <<"config", 2>>
    /\ subscriber = "completed"
    /\ stream.endCalls = 1
    /\ streamEvents = <<"end">>

\* ---------------------------------------------------------------- C35
\* C35: once the promise of listen() has settled, the microphone
\* subscription is closed (unsubscribed by the handler or completed before
\* it), the session has ended its capture, kill() has been called on the
\* recording process, its exit and error listeners are removed, end$ is
\* unsubscribed and no timer of the pipeline is armed.
C35_SettledMeansStopped ==
    settled # <<>> =>
        /\ subscriber \in {"unsubscribed", "completed"}
        /\ isCompleted
        /\ arecordProcess.killCalls >= 1
        /\ arecordProcess.listeners \cap {"exit", "error"} = {}
        /\ endSub.closed
        /\ Timers = {}

\* C35: the stream ended while the microphone was still capturing, and the
\* promise resolved
C35_Witness ==
    /\ settled = <<"resolve">>
    /\ subscriber = "unsubscribed"
    /\ cause = "unsubscribe"
    /\ received >= 1
    /\ ~arecordProcess.exited

\* ---------------------------------------------------------------- C36
\* the first call is between its setWorkflowActive(true) and its finally block
FlowInTry == FlowAwaits /\ flow.pc # "closeSpeech"

\* C36: the flag is true exactly when a call of runMinimalFlow() is inside
\* its try block and stopWorkflow() has not been called since that call
\* started.
C36_FlagIffRunning ==
    isWorkflowActive <=>
        \/ FlowInTry /\ ~flow.stopped
        \/ laterFlows /\ ~flow.laterStopped

\* C36: a later call is running, nothing has stopped the workflow since it
\* started, and the exit of the first call has cleared the flag
C36_ExitClearsFlagOfRunning ==
    /\ laterFlows
    /\ ~flow.laterStopped
    /\ flow.pc = "done"
    /\ ~isWorkflowActive

\* ---------------------------------------------------------------- C37
\* the listen of the conversation loop returned to a running flow
ListenGave(outcome) ==
    /\ flow.pc = "listen"
    /\ flow'.event = [op |-> "listen", outcome |-> outcome, active |-> TRUE]

\* the first call has left its conversation loop
FlowEnded == flow.pc \in {"closeSpeech", "done"}

\* C37 as claimed: the flow has ended with status "interrupted" exactly when
\* its last three listens returned no input
C37_InterruptedIffThreeSilences ==
    (FlowEnded /\ flow.flowStatus = "interrupted")
        <=> flow.consecutiveSilences = 3

\* C37 as the code has it: the counter stays in 0..3; a non-empty input
\* given to a running flow sets it to 0, an empty one adds 1 to it, and no
\* other step changes it; the listen that makes it 3 ends the loop with
\* status "interrupted", and an empty listen that leaves it below 3 goes on
\* with the silence prompt.  (The status "interrupted" alone does not tell:
\* it is also the status of a flow stopped in other ways.)
C37_SilenceCounter ==
    [][ /\ flow'.consecutiveSilences \in 0..3
        /\ ListenGave("text") => flow'.consecutiveSilences = 0
        /\ ListenGave("empty") =>
               /\ flow'.consecutiveSilences = flow.consecutiveSilences + 1
               /\ IF flow'.consecutiveSilences = 3
                  THEN /\ flow'.pc = "done"
                       /\ flow'.flowStatus = "interrupted"
                  ELSE flow'.pc = "playSilence"
        /\ ~(ListenGave("text") \/ ListenGave("empty")) =>
               flow'.consecutiveSilences = flow.consecutiveSilences
        /\ flow.consecutiveSilences = 3 => flow'.pc = "done"
      ]_vars

\* C37: the third silence in a row ended the flow as "interrupted"
C37_Witness ==
    /\ flow.pc = "done"
    /\ flow.consecutiveSilences = 3
    /\ flow.flowStatus = "interrupted"
    /\ flow.event = [op |-> "listen", outcome |-> "empty", active |-> TRUE]

\* C37: the flow ended "interrupted" because the hinge was deactivated during
\* a listen, after one silence only
C37_InterruptedByHinge ==
    /\ flow.pc = "done"
    /\ flow.flowStatus = "interrupted"
    /\ flow.consecutiveSilences = 1
    /\ flow.event = [op |-> "listen", outcome |-> "text", active |-> FALSE]

\* ---------------------------------------------------------------- C38
\* the step in which the first call leaves its try block
FlowEnds == ~FlowEnded /\ flow'.pc \in {"closeSpeech", "done"}

\* C38: the recording is written only by the step that follows the
\* completion cue, which is played only after the classifier answered
\* "finished"; the status is "completed" exactly when the recording was
\* written; the flow awaits closeSpeech() on its exit exactly when its status
\* is "completed"; the attempt counter stays in 0..3, and the unanswered or
\* unclear confirmation that makes it 3 ends the flow as "interrupted" with
\* nothing written.
C38_StoredIffCompleted ==
    [][ /\ (flow'.written /\ ~flow.written) =>
               /\ flow.pc = "playComplete"
               /\ flow'.event.outcome = "ok"
        /\ (flow'.pc = "playComplete" /\ flow.pc # "playComplete") =>
               /\ flow.pc = "classify"
               /\ flow'.event.outcome = "finished"
        /\ flow'.written <=> flow'.flowStatus = "completed"
        /\ FlowEnds =>
               (flow'.pc = "closeSpeech" <=> flow'.flowStatus = "completed")
        /\ (flow'.pc = "closeSpeech" /\ flow.pc # "closeSpeech") => FlowEnds
        /\ flow'.noResponseAttempts \in 0..3
        /\ (flow'.noResponseAttempts = 3 /\ flow.noResponseAttempts = 2) =>
               /\ flow.pc \in {"confirmListen", "playUnclear"}
               /\ flow'.pc = "done"
               /\ flow'.flowStatus = "interrupted"
               /\ ~flow'.written
      ]_vars

\* C38: the story was stored, the flow completed and the speech server was
\* closed
C38_Witness ==
    /\ flow.written
    /\ flow.flowStatus = "completed"
    /\ flow.pc = "done"
    /\ flow.event.op = "closeSpeech"

\* C38: the third failed confirmation ended the flow with nothing written
C38_ThreeFailedConfirmations ==
    /\ flow.noResponseAttempts = 3
    /\ flow.pc = "done"
    /\ flow.flowStatus = "interrupted"
    /\ ~flow.written
    /\ flow.event.op = "playUnclear"

\* ---------------------------------------------------------------- C39
\* the step in which cleanupLangchain() returns
CleanupReturns == cleanup.pc # "returned" /\ cleanup'.pc = "returned"

\* the steps of the running call were taken in this order
InOrder(first, second) ==
    \A i, j \in 1..Len(cleanup.log) :
        (cleanup.log[i] = first /\ cleanup.log[j] = second) => i < j

\* C39: cleanupLangchain() never rejects; when it returns after all steps
\* succeeded, the flag is false, the controller is null and every controller
\* created before is aborted, and the set of tracked operations is empty;
\* the workflow is stopped before the operations are aborted and they are
\* aborted before they are waited for.
C39_CleanupContract ==
    /\ cleanup.outcome # "rejected"
    /\ InOrder("stopWorkflow", "abort")
    /\ InOrder("abort", "wait")
    /\ (cleanup.pc = "returned" /\ ~cleanup.failed) =>
           /\ ~cleanup.atReturn.active
           /\ cleanup.atReturn.controller = 0
           /\ cleanup.atReturn.operations = {}

\* C39: what holds of every call: it resolves, also after a step threw; it
\* stops the workflow before it aborts and aborts before it waits; the flag
\* is false, the controller that was active is aborted and the reference is
\* null when the synchronous part is over; the set is empty when the wait is
\* over.
C39_ResolvesInOrder ==
    [][ /\ cleanup'.outcome # "rejected"
        /\ CleanupReturns => cleanup'.outcome = "resolved"
        /\ \A i, j \in 1..Len(cleanup'.log) :
               \/ i >= j
               \/ <<cleanup'.log[i], cleanup'.log[j]>> \in
                      {<<"stopWorkflow", "abort">>, <<"stopWorkflow", "wait">>,
                       <<"stopWorkflow", "clear">>, <<"abort", "wait">>,
                       <<"abort", "clear">>, <<"wait", "clear">>}
        /\ (cleanup.pc \in {"idle", "returned"} /\ cleanup'.pc \in {"waiting", "speech"}) =>
               /\ ~isWorkflowActive'
               /\ cleanup'.activeAbortController = 0
               /\ cleanup.activeAbortController # 0 =>
                      cleanup.activeAbortController \in cleanup'.aborted
        /\ (cleanup.pc = "waiting" /\ cleanup'.pc = "speech") =>
               cleanup'.activeLangchainOperations = {}
      ]_vars

\* C39: a call returned after all its steps succeeded; while it awaited the
\* speech cleanup an agent had created a controller and registered an
\* operation
C39_DirtyAtReturn ==
    /\ cleanup.pc = "returned"
    /\ ~cleanup.failed
    /\ cleanup.log = <<"stopWorkflow", "abort", "wait", "clear">>
    /\ cleanup.atReturn.controller \notin cleanup.aborted \cup {0}
    /\ cleanup.atReturn.operations # {}

\* C39: a call whose abort step threw has resolved
C39_ResolvedAfterFailure ==
    /\ cleanup.pc = "returned"
    /\ cleanup.failed
    /\ cleanup.outcome = "resolved"
    /\ cleanup.log = <<"stopWorkflow">>

====
